---- MODULE Spec2Model ----
(***************************************************************************)
(* Model of the PinBackend media extractor: the JSON helpers and quality   *)
(* selectors, the pin-object converter, the strategy parsers, the          *)
(* extraction pipeline behind POST /api/extract with its error handler,    *)
(* and the browser fallback engine.                                        *)
(*                                                                         *)
(* JavaScript values are records [t, s, n, p]: t is the type tag, s the    *)
(* characters of a string, n the value of a number, p the ordered own      *)
(* properties of an object or the elements of an array.  A value tagged    *)
(* "throw" stands for an exception leaving the function.                   *)
(***************************************************************************)
EXTENDS Integers, Sequences, FiniteSets, TLC

VARIABLES
    pc,         \* where the request to POST /api/extract stands
    reqUrl,     \* req.body.url
    curUrl,     \* extractPinterestMedia's url
    curPage,    \* the page fetchPage returned
    cookieStr,  \* the cookie string fetchPage returned
    resolveErr, \* what resolveShortUrl's request rejected with, if it did
    apiResp,    \* the body the internal API answered with, "throw" if it failed
    apiErr,     \* what the internal-API request rejected with, if it did
    invoked,    \* the strategies invoked so far, in order
    net,        \* the network requests issued so far, in order
    inflight,   \* the number of network requests issued and not yet settled
    ret,        \* the value extractPinterestMedia returned
    thrown,     \* the error it threw
    sent,       \* the HTTP responses sent, in order
    convPin,    \* the pin object handed to pinObjectToMedia on its own
    bpc,               \* where the call of extractWithBrowser stands
    pinUrl,            \* its argument
    apiResult,         \* what its fast path got from extractFromApi
    browser,           \* the browser session: "null", "open" or "closed"
    calls,             \* the API call, launch, navigation and close, in order
    capturedVideoUrls, \* the Set of captured MP4 URLs, in insertion order
    bestVideoFromApi,  \* the URL the response observer took from API JSON
    bThumbnail,        \* extractWithBrowser's thumbnail
    bTitle,            \* extractWithBrowser's title
    outcome,           \* how the try block completed: a return or a throw
    peer,              \* the capture state of another call running meanwhile
    now,        \* the clock, in milliseconds
    hitStore,   \* the extract limiter's store: per key, totalHits and resetTime
    browserStore, \* the browser limiter's store
    apiKeyEnv,  \* process.env.API_KEY
    passed,     \* per key, the requests the limiter let through in its window
    lastReq,    \* what became of the latest request to the server
    spc,        \* where the call of a quality selector stands
    selFn,      \* the function called: a selector ("video", "image") or a parser ("meta", "relay")
    selArg,     \* its argument
    selRet,     \* what it returned, "throw" if it raised
    heap,       \* the objects and arrays of a graph, by identity
    dfRoot,     \* deepFind's first argument: a reference into heap or a primitive
    dfpc,       \* where the call of deepFind stands
    dfStack,    \* its activations, outermost first: the node and the next property
    dfSeen,     \* the _seen set
    dfOut,      \* the results pushed so far, in the order of the returned array
    dfExpanded, \* per node, how often its properties were walked
    dfSteps     \* the steps the call has taken

\* The variables of the pipeline, and the ones its actions leave alone.
pvars ==
    <<pc, reqUrl, curUrl, curPage, cookieStr, resolveErr, apiResp, apiErr, invoked,
      net, inflight, ret, thrown, sent>>

\* The variables of the browser fallback.
bvars ==
    <<bpc, pinUrl, apiResult, browser, calls, capturedVideoUrls, bestVideoFromApi,
      bThumbnail, bTitle, outcome, peer>>

\* The variables of the extract rate limiter.
lvars == <<now, hitStore, browserStore, apiKeyEnv, passed, lastReq>>

\* The variables of the calls made on their own.
\* The variables of a quality selector called on its own.
svars == <<spc, selFn, selArg, selRet>>

\* The variables of deepFind called on a graph.
gvars == <<heap, dfRoot, dfpc, dfStack, dfSeen, dfOut, dfExpanded, dfSteps>>

cvars == <<convPin, lvars, svars, gvars>>

others == <<cvars, bvars>>

vars == <<pvars, others>>

\* ------------------------------------------------------------------------
\* JavaScript values
\* ------------------------------------------------------------------------

JV(t, s, n, p) == [t |-> t, s |-> s, n |-> n, p |-> p]

JUndef == JV("undef", <<>>, 0, <<>>)

JNull == JV("null", <<>>, 0, <<>>)

JThrow == JV("throw", <<>>, 0, <<>>)

JStr(s) == JV("str", s, 0, <<>>)

JNum(n) == JV("num", <<>>, n, <<>>)

JObj(p) == JV("obj", <<>>, 0, p)

JArr(p) == JV("arr", <<>>, 0, p)

P(k, v) == [k |-> k, v |-> v]

\* An object literal: the properties whose value is undefined are left out.
Lit(p) == JObj(SelectSeq(p, LAMBDA q : q.v.t # "undef"))

\* JavaScript truthiness.
Truthy(v) ==
    CASE v.t = "undef" -> FALSE
      [] v.t = "null" -> FALSE
      [] v.t = "str" -> Len(v.s) > 0
      [] v.t = "num" -> v.n # 0
      [] OTHER -> TRUE

\* typeof v === 'object'
TypeofObject(v) == v.t \in {"null", "obj", "arr"}

\* typeof v === 'object' && v !== null
IsComposite(v) == v.t \in {"obj", "arr"}

IsString(v) == v.t = "str"

\* Object.prototype.hasOwnProperty.call(v, k)
HasOwn(v, k) == IsComposite(v) /\ \E i \in 1..Len(v.p) : v.p[i].k = k

\* v[k] on a non-nullish v: the own property, else undefined.
Get(v, k) ==
    IF HasOwn(v, k)
    THEN v.p[CHOOSE i \in 1..Len(v.p) : v.p[i].k = k].v
    ELSE JUndef

\* v?.[k]: the same; a nullish v gives undefined as well.
OptGet(v, k) == Get(v, k)

\* Object.values(v): the own property values in property order.
Values(v) == [i \in 1..Len(v.p) |-> v.p[i].v]

\* a || b
Or(a, b) == IF Truthy(a) THEN a ELSE b

\* a ?? b
Nullish(a, b) == IF a.t \in {"undef", "null"} THEN b ELSE a

\* ------------------------------------------------------------------------
\* Strings: sequences of one-character strings
\* ------------------------------------------------------------------------

Min(a, b) == IF a < b THEN a ELSE b

\* String.prototype.includes
Includes(s, pat) ==
    \E i \in 0..(Len(s) - Len(pat)) : SubSeq(s, i + 1, i + Len(pat)) = pat

\* String.prototype.endsWith
EndsWith(s, pat) ==
    /\ Len(s) >= Len(pat)
    /\ SubSeq(s, Len(s) - Len(pat) + 1, Len(s)) = pat

LOWER == <<"a", "b", "c", "d", "e", "f", "g", "h", "i", "j", "k", "l", "m", "n", "o", "p", "q", "r", "s", "t", "u", "v", "w", "x", "y", "z">>

UPPER == <<"A", "B", "C", "D", "E", "F", "G", "H", "I", "J", "K", "L", "M", "N", "O", "P", "Q", "R", "S", "T", "U", "V", "W", "X", "Y", "Z">>

DIGITS == {"0", "1", "2", "3", "4", "5", "6", "7", "8", "9"}

Range(f) == {f[i] : i \in DOMAIN f}

LowerOf(c) ==
    IF c \in Range(UPPER) THEN LOWER[CHOOSE i \in 1..Len(UPPER) : UPPER[i] = c] ELSE c

\* String.prototype.toLowerCase
ToLower(s) == [i \in 1..Len(s) |-> LowerOf(s[i])]

IsSpace(c) == c \in {" ", "\t", "\n", "\r"}

\* String.prototype.trim
Trim(s) ==
    IF \A i \in 1..Len(s) : IsSpace(s[i])
    THEN <<>>
    ELSE LET a == CHOOSE i \in 1..Len(s) :
                      ~IsSpace(s[i]) /\ \A j \in 1..(i - 1) : IsSpace(s[j])
             b == CHOOSE i \in 1..Len(s) :
                      ~IsSpace(s[i]) /\ \A j \in (i + 1)..Len(s) : IsSpace(s[j])
         IN SubSeq(s, a, b)

\* String.prototype.slice(0, n)
Slice0(s, n) == SubSeq(s, 1, Min(n, Len(s)))

M3U8 == <<".", "m", "3", "u", "8">>

MP4 == <<".", "m", "p", "4">>

GIF == <<".", "g", "i", "f">>

JPG == <<".", "j", "p", "g">>

\* url.includes('.m3u8') for a string or an array receiver.
IncludesM3U8(u) ==
    IF u.t = "str"
    THEN Includes(u.s, M3U8)
    ELSE \E i \in 1..Len(u.p) : u.p[i].v = JStr(M3U8)

\* The index of the first TRUE of a sequence of booleans, 0 when there is none:
\* where a loop that returns on its first match stops.
FirstTrue(b) ==
    CHOOSE n \in
        { IF \E i \in 1..Len(v) : v[i]
          THEN CHOOSE i \in 1..Len(v) : v[i] /\ \A j \in 1..(i - 1) : ~v[j]
          ELSE 0 : v \in {b} } : TRUE

RECURSIVE Flatten(_)
Flatten(seqs) ==
    IF Len(seqs) = 0 THEN <<>> ELSE Head(seqs) \o Flatten(Tail(seqs))

\* ------------------------------------------------------------------------
\* Quality selectors and structural search
\* ------------------------------------------------------------------------

VIDEO_QUALITY_LOWEST_FIRST ==
    <<"V_EXP5", "V_EXP6", "V_EXP7", "V_240P", "V_480P", "V_720P", "V_1080P">>

VIDEO_QUALITY_PREFERENCE ==
    <<"V_1080P", "V_720P", "V_480P", "V_240P", "V_EXP7", "V_EXP6", "V_EXP5">>

VideoEntryCheckAny(entry) ==
    LET u == OptGet(entry, "url") IN
    IF ~Truthy(u) THEN "skip"
    ELSE IF u.t \notin {"str", "arr"} THEN "throw"
    ELSE "hit"

\* One candidate entry of a video list: "skip" when the loop moves on, "hit"
\* when it returns the entry, "throw" when entry.url has no includes method.
VideoEntryCheck(entry) ==
    LET u == OptGet(entry, "url") IN
    IF ~Truthy(u) THEN "skip"
    ELSE IF u.t \notin {"str", "arr"} THEN "throw"
    ELSE IF IncludesM3U8(u) THEN "skip"
    ELSE "hit"

pickBestVideo(videoList) ==
    IF ~Truthy(videoList) \/ ~TypeofObject(videoList) THEN JNull
    ELSE
    LET pref == [i \in 1..Len(VIDEO_QUALITY_PREFERENCE) |->
                    Get(videoList, VIDEO_QUALITY_PREFERENCE[i])]
        i1 == FirstTrue([i \in 1..Len(pref) |-> VideoEntryCheck(pref[i]) # "skip"])
        vals == Values(videoList)
        i2 == FirstTrue([i \in 1..Len(vals) |-> VideoEntryCheck(vals[i]) # "skip"])
    IN  IF i1 # 0
        THEN IF VideoEntryCheck(pref[i1]) = "throw" THEN JThrow
             ELSE Lit(<<P("url", Get(pref[i1], "url")),
                        P("width", Get(pref[i1], "width")),
                        P("height", Get(pref[i1], "height"))>>)
        ELSE IF i2 # 0
        THEN IF VideoEntryCheck(vals[i2]) = "throw" THEN JThrow
             ELSE Lit(<<P("url", Get(vals[i2], "url"))>>)
        ELSE JNull

preferredKeysSmallestFirst == <<"170x", "236x", "474x", "600x315", "736x", "orig">>

preferredKeys == <<"orig", "736x", "600x315", "474x", "236x", "170x">>

pickBestImage(images) ==
    IF ~Truthy(images) \/ ~TypeofObject(images) THEN JNull
    ELSE
    LET pref == [i \in 1..Len(preferredKeys) |-> Get(images, preferredKeys[i])]
        i1 == FirstTrue([i \in 1..Len(pref) |-> Truthy(OptGet(pref[i], "url"))])
        vals == Values(images)
        i2 == FirstTrue([i \in 1..Len(vals) |-> Truthy(OptGet(vals[i], "url"))])
    IN  IF i1 # 0 THEN Get(pref[i1], "url")
        ELSE IF i2 # 0 THEN Get(vals[i2], "url")
        ELSE JNull

\* deepFind over a value produced by JSON.parse.  Such a value is a tree: no
\* composite node is reachable twice, so the _seen guard never cuts a branch.
RECURSIVE deepFind(_, _)
deepFind(obj, key) ==
    IF ~IsComposite(obj) THEN <<>>
    ELSE (IF HasOwn(obj, key) THEN <<Get(obj, key)>> ELSE <<>>)
         \o Flatten([i \in 1..Len(obj.p) |->
                IF IsComposite(obj.p[i].v) THEN deepFind(obj.p[i].v, key)
                ELSE <<>>])

firstString(arr, fallback) ==
    LET i == FirstTrue([j \in 1..Len(arr) |->
                           IsString(arr[j]) /\ Len(Trim(arr[j].s)) > 0])
    IN IF i # 0 THEN arr[i] ELSE fallback

\* ------------------------------------------------------------------------
\* Pin-object converter
\* ------------------------------------------------------------------------

VIDEO == <<"v", "i", "d", "e", "o">>

IMAGE == <<"i", "m", "a", "g", "e">>

PINTEREST == <<"P", "i", "n", "t", "e", "r", "e", "s", "t">>

\* The object literal { type, media_url, thumbnail, title }.
MediaResult(type, media_url, thumbnail, title) ==
    JObj(<<P("type", JStr(type)), P("media_url", media_url),
           P("thumbnail", thumbnail), P("title", title)>>)

\* thumbnail.toLowerCase().endsWith('.gif') ? 'gif' : 'image', for a string.
GifOrImageCaseSensitive(url) == IF EndsWith(url.s, GIF) THEN SubSeq(GIF, 2, 4) ELSE IMAGE

GifOrImage(url) == IF EndsWith(ToLower(url.s), GIF) THEN SubSeq(GIF, 2, 4) ELSE IMAGE

\* The title of a pin: its trimmed title, else its trimmed description cut to
\* 120 characters, else the placeholder.
PinTitle(pin) ==
    LET t == Get(pin, "title")
        d == Get(pin, "description")
    IN  IF IsString(t) /\ Len(Trim(t.s)) > 0 THEN JStr(Trim(t.s))
        ELSE IF IsString(d) /\ Len(Trim(d.s)) > 0
        THEN JStr(Slice0(Trim(d.s), 120))
        ELSE JStr(PINTEREST)

\* What `for (const block of (page?.blocks || []))` iterates: the elements of an
\* array, the characters of a string; any other truthy value is not iterable.
Iterable(v) == v.t \in {"arr", "str"}

IterValues(v) ==
    IF v.t = "arr" THEN Values(v) ELSE [i \in 1..Len(v.s) |-> JStr(<<v.s[i]>>)]

StoryVideoListDirectOnly(block) == OptGet(OptGet(block, "video"), "video_list")

\* block?.video?.video_list ?? block?.block?.video?.video_list
StoryVideoList(block) ==
    Nullish(OptGet(OptGet(block, "video"), "video_list"),
            OptGet(OptGet(OptGet(block, "block"), "video"), "video_list"))

\* One step of the story loops: k is "skip", "hit" (the loop returns a video
\* result) or "throw".
StoryStep(k, page, best) == [k |-> k, page |-> page, best |-> best]

StoryBlockStep(page, block) ==
    LET svl == StoryVideoList(block)
        best == pickBestVideo(svl)
    IN  IF ~Truthy(svl) THEN StoryStep("skip", page, JNull)
        ELSE IF best.t = "throw" THEN StoryStep("throw", page, JNull)
        ELSE IF Truthy(best) THEN StoryStep("hit", page, best)
        ELSE StoryStep("skip", page, JNull)

StoryPageSteps(page) ==
    LET blocks == Or(OptGet(page, "blocks"), JArr(<<>>)) IN
    IF ~Iterable(blocks) THEN <<StoryStep("throw", page, JNull)>>
    ELSE LET bs == IterValues(blocks)
         IN [i \in 1..Len(bs) |-> StoryBlockStep(page, bs[i])]

\* The steps of the nested page/block loops in execution order.
StorySteps(pages) ==
    Flatten([i \in 1..Len(pages.p) |-> StoryPageSteps(pages.p[i].v)])

pinObjectToMedia(pin) ==
    IF ~Truthy(pin) \/ ~TypeofObject(pin) THEN JNull
    ELSE
    CHOOSE result \in
      { LET s2 == FirstTrue([i \in 1..Len(steps) |-> steps[i].k # "skip"])
            s3 == FirstTrue([i \in 1..Len(bests) |->
                                bests[i].t = "throw" \/ Truthy(bests[i])])
        IN  IF best1.t = "throw" THEN JThrow
            ELSE IF Truthy(best1)
            THEN MediaResult(VIDEO, Get(best1, "url"), thumbnail, title)
            ELSE IF s2 # 0
            THEN IF steps[s2].k = "throw" THEN JThrow
                 ELSE MediaResult(VIDEO, Get(steps[s2].best, "url"),
                          Or(pickBestImage(OptGet(steps[s2].page, "image")), thumbnail),
                          title)
            ELSE IF s3 # 0
            THEN IF bests[s3].t = "throw" THEN JThrow
                 ELSE MediaResult(VIDEO, Get(bests[s3], "url"), thumbnail, title)
            ELSE IF Truthy(thumbnail)
            THEN IF ~IsString(thumbnail) THEN JThrow
                 ELSE MediaResult(GifOrImage(thumbnail), thumbnail, thumbnail, title)
            ELSE JNull :
        title \in {PinTitle(pin)},
        thumbnail \in {Or(pickBestImage(Get(pin, "images")), JNull)},
        best1 \in {LET videoList == OptGet(Get(pin, "videos"), "video_list")
                   IN IF Truthy(videoList) THEN pickBestVideo(videoList) ELSE JNull},
        steps \in {LET pages == OptGet(Get(pin, "story_pin_data"), "pages")
                   IN IF pages.t = "arr" THEN StorySteps(pages) ELSE <<>>},
        bests \in {LET videoLists == deepFind(pin, "video_list")
                   IN [i \in 1..Len(videoLists) |-> pickBestVideo(videoLists[i])]} } : TRUE

\* ------------------------------------------------------------------------
\* The fetched page as cheerio and the parsers see it
\* ------------------------------------------------------------------------
\* A script element: id is its id attribute, hasSrc whether it carries a src
\* attribute, brace whether its trimmed body starts with "{", marks the marker
\* names its body contains, form the shape of its body ("bare": a JSON text,
\* "assign": <marker> = <JSON text>; "relay": <marker>("<arg>", <JSON text>);
\* "other": none of these), ok whether the JSON text parses, semi whether the
\* JSON text contains a ";", json the value JSON.parse gives for it.

REDUX_MARK == "initialReduxState"

PWS_MARKS == {"__PWS_INITIAL_DATA__", "__PWS_DATA__"}

RELAY_MARK == "__PWS_RELAY_REGISTER_COMPLETED_REQUEST__(\""

\* Document order restricted to the elements matching `script:not([src])`.
InlineScripts(page) == SelectSeq(page.scripts, LAMBDA sc : ~sc.hasSrc)

\* $(sel).attr('content'): the attribute of the first element matching sel.
MetaContent(page, sel) ==
    LET i == FirstTrue([j \in 1..Len(page.meta) |-> page.meta[j].sel = sel])
    IN IF i = 0 THEN JUndef ELSE page.meta[i].content

\* Outcome of the loop `for (x of xs) { r = f(x); if (r) return r; }` over the
\* values rs already computed in order: the first one that is truthy or
\* throws, null when there is none.
FirstResult(rs) ==
    CHOOSE r \in
        { IF \E j \in 1..Len(v) : v[j].t = "throw" \/ Truthy(v[j])
          THEN v[CHOOSE j \in 1..Len(v) :
                     /\ v[j].t = "throw" \/ Truthy(v[j])
                     /\ \A k \in 1..(j - 1) : ~(v[k].t = "throw" \/ Truthy(v[k]))]
          ELSE JNull : v \in {rs} } : TRUE

\* The initialReduxState the scan of extractFromReduxState settles on.
ReduxStateOf(page) ==
    LET scs == InlineScripts(page)
        i == FirstTrue([j \in 1..Len(scs) |->
                 /\ scs[j].brace
                 /\ REDUX_MARK \in scs[j].marks
                 /\ scs[j].form = "bare" /\ scs[j].ok
                 /\ Truthy(Get(scs[j].json, REDUX_MARK))])
    IN IF i = 0 THEN JNull ELSE Get(scs[i].json, REDUX_MARK)

extractFromReduxState(page) ==
    CHOOSE r \in
        { LET pins == Get(reduxState, "pins")
              ra == IF Truthy(pins) /\ TypeofObject(pins) /\ pins.t # "arr"
                    THEN FirstResult([i \in 1..Len(pins.p) |->
                             pinObjectToMedia(pins.p[i].v)])
                    ELSE JNull
              pinResource == OptGet(Get(reduxState, "resources"), "PinResource")
              rb == IF Truthy(pinResource) /\ TypeofObject(pinResource)
                    THEN FirstResult([i \in 1..Len(pinResource.p) |->
                             pinObjectToMedia(Nullish(OptGet(pinResource.p[i].v, "data"),
                                                      pinResource.p[i].v))])
                    ELSE JNull
          IN  IF ~Truthy(reduxState) THEN JNull
              ELSE FirstResult(<<ra, rb>>) : reduxState \in {ReduxStateOf(page)} } : TRUE

PINTEREST_VIDEO == PINTEREST \o <<" ", "V">> \o SubSeq(VIDEO, 2, 5)

PINTEREST_IMAGE == PINTEREST \o <<" ", "I">> \o SubSeq(IMAGE, 2, 5)

\* The data extractFromPWSData settles on: (a) the element with id
\* __PWS_DATA__, (b) the first script assigning one of the markers whose text,
\* cut at its first ";", parses to a truthy value.
PWSDataOf(page) ==
    LET ia == FirstTrue([j \in 1..Len(page.scripts) |->
                  page.scripts[j].id = "__PWS_DATA__"])
        a == IF ia # 0 /\ page.scripts[ia].form = "bare" /\ page.scripts[ia].ok
             THEN page.scripts[ia].json ELSE JNull
        ib == FirstTrue([j \in 1..Len(page.scripts) |->
                  /\ page.scripts[j].marks \cap PWS_MARKS # {}
                  /\ page.scripts[j].form = "assign"
                  /\ page.scripts[j].ok /\ ~page.scripts[j].semi
                  /\ Truthy(page.scripts[j].json)])
    IN  IF Truthy(a) THEN a
        ELSE IF ib # 0 THEN page.scripts[ib].json
        ELSE JNull

extractFromPWSData(page) ==
    LET data == PWSDataOf(page)
        videoLists == deepFind(data, "video_list")
        bests == [i \in 1..Len(videoLists) |-> pickBestVideo(videoLists[i])]
        iv == FirstTrue([i \in 1..Len(bests) |->
                            bests[i].t = "throw" \/ Truthy(bests[i])])
        allImages == deepFind(data, "images")
        imgs == [i \in 1..Len(allImages) |-> pickBestImage(allImages[i])]
        ii == FirstTrue([i \in 1..Len(imgs) |-> Truthy(imgs[i])])
        thumbnail == IF ii = 0 THEN JNull ELSE imgs[ii]
        titles == deepFind(data, "title")
    IN  IF ~Truthy(data) THEN JNull
        ELSE IF iv # 0
        THEN IF bests[iv].t = "throw" THEN JThrow
             ELSE MediaResult(VIDEO, Get(bests[iv], "url"), thumbnail,
                              firstString(titles, JStr(PINTEREST_VIDEO)))
        ELSE IF ii # 0
        THEN IF ~IsString(imgs[ii]) THEN JThrow
             ELSE MediaResult(GifOrImage(imgs[ii]), imgs[ii], imgs[ii],
                              firstString(titles, JStr(PINTEREST_IMAGE)))
        ELSE JNull

MP4_QUALITY_KEYS ==
    <<"videoList1080P", "videoList720P", "videoList480P", "videoList360P",
      "videoList240P", "videoList">>

HLS_KEYS == <<"v_hlsv4_video_list", "videoListMobile", "videoList">>

PINIMG_COM == <<"p", "i", "n", "i", "m", "g", ".", "c", "o", "m">>

\* The entries the loops `for key / for vl of deepFind(json, key) / for entry
\* of Object.values(vl)` visit, in order.
RelayEntries(json, keys) ==
    Flatten([k \in 1..Len(keys) |->
        LET vls == deepFind(json, keys[k]) IN
        Flatten([i \in 1..Len(vls) |->
            IF IsComposite(vls[i]) THEN Values(vls[i]) ELSE <<>>])])

\* What one relay script contributes: null when the scan moves on to the next
\* script, a video result, or an exception.
RelayScriptResult(page, sc) ==
    IF ~(RELAY_MARK \in sc.marks /\ sc.form = "relay" /\ sc.ok) THEN JNull
    ELSE
    LET json == sc.json
        thumbs == deepFind(json, "thumbnail")
        it == FirstTrue([i \in 1..Len(thumbs) |->
                  IsString(thumbs[i]) /\ Includes(thumbs[i].s, PINIMG_COM)])
        thumbnail == IF it # 0 THEN thumbs[it]
                     ELSE Or(MetaContent(page, "og:image"), JNull)
        cands == deepFind(json, "pinTitle") \o deepFind(json, "description")
        ic == FirstTrue([i \in 1..Len(cands) |->
                  IsString(cands[i]) /\ Len(Trim(cands[i].s)) > 0])
        title == IF ic # 0 THEN cands[ic] ELSE JStr(PINTEREST_VIDEO)
        mp4 == RelayEntries(json, MP4_QUALITY_KEYS)
        im == FirstTrue([i \in 1..Len(mp4) |-> VideoEntryCheck(mp4[i]) # "skip"])
        hls == RelayEntries(json, HLS_KEYS)
        ih == FirstTrue([i \in 1..Len(hls) |-> Truthy(OptGet(hls[i], "url"))])
    IN  IF im # 0
        THEN IF VideoEntryCheck(mp4[im]) = "throw" THEN JThrow
             ELSE MediaResult(VIDEO, Get(mp4[im], "url"), thumbnail, title)
        ELSE IF ih # 0
        THEN MediaResult(VIDEO, Get(hls[ih], "url"), thumbnail, title)
        ELSE JNull

extractFromRelayScripts(page) ==
    LET scs == InlineScripts(page)
    IN FirstResult([i \in 1..Len(scs) |-> RelayScriptResult(page, scs[i])])

\* s with the first occurrence of pat replaced by rep (String.prototype.replace
\* with a string pattern).
ReplaceFirst(s, pat, rep) ==
    LET i == FirstTrue([j \in 1..Len(s) |->
                 j + Len(pat) - 1 <= Len(s) /\ SubSeq(s, j, j + Len(pat) - 1) = pat])
    IN IF i = 0 THEN s
       ELSE SubSeq(s, 1, i - 1) \o rep \o SubSeq(s, i + Len(pat), Len(s))

ORIGINALS_SEG == <<"/", "o", "r", "i", "g", "i", "n", "a", "l", "s", "/">>

\* Whether /\/\d+x\// matches s at position i with k digits.
SizedAt(s, i, k) ==
    /\ i + k + 2 <= Len(s)
    /\ s[i] = "/"
    /\ \A j \in 1..k : s[i + j] \in DIGITS
    /\ s[i + k + 1] = "x"
    /\ s[i + k + 2] = "/"

\* An upgrade that leaves the sized segment in place.
upgradeImageQualityNone(url) == url

\* url.replace(/\/\d+x\//, '/originals/'), for a string or a falsy value.
upgradeImageQuality(url) ==
    IF ~Truthy(url) THEN url
    ELSE
    LET s == url.s
        i == FirstTrue([j \in 1..Len(s) |-> \E k \in 1..Len(s) : SizedAt(s, j, k)])
    IN  IF i = 0 THEN url
        ELSE LET k == CHOOSE k \in 1..Len(s) : SizedAt(s, i, k)
             IN JStr(SubSeq(s, 1, i - 1) \o ORIGINALS_SEG
                     \o SubSeq(s, i + k + 3, Len(s)))

HEX == DIGITS \cup {"a", "b", "c", "d", "e", "f"}

HASH_LEN == 32

\* Whether /\/([a-f0-9]{32})\./ matches s at position i.
HashAt(s, i) ==
    /\ i + HASH_LEN + 1 <= Len(s)
    /\ s[i] = "/"
    /\ \A j \in 1..HASH_LEN : s[i + j] \in HEX
    /\ s[i + HASH_LEN + 1] = "."

ORIGINALS_PREFIX == <<"h", "t", "t", "p", "s", ":", "/", "/", "i", ".", "p", "i", "n", "i", "m", "g", ".", "c", "o", "m", "/", "o", "r", "i", "g", "i", "n", "a", "l", "s", "/">>

IsLetter(c) == c \in Range(LOWER) \/ c \in Range(UPPER)

\* The number of letters of s from position i on (the greedy [a-z]+, flag i).
LettersFrom(s, i) ==
    IF \E n \in 0..(Len(s) - i + 1) :
           (\A j \in 0..(n - 1) : IsLetter(s[i + j]))
           /\ (i + n > Len(s) \/ ~IsLetter(s[i + n]))
    THEN CHOOSE n \in 0..(Len(s) - i + 1) :
           (\A j \in 0..(n - 1) : IsLetter(s[i + j]))
           /\ (i + n > Len(s) \/ ~IsLetter(s[i + n]))
    ELSE 0

findOriginalImageInHtml(html, ogImageUrl) ==
    IF ~Truthy(ogImageUrl) THEN JNull
    ELSE
    LET u == ogImageUrl.s
        ih == FirstTrue([j \in 1..Len(u) |-> HashAt(u, j)])
    IN  IF ih = 0 THEN JNull
        ELSE
        LET hash == SubSeq(u, ih + 1, ih + HASH_LEN)
            parts == SubSeq(hash, 1, 2) \o <<"/">> \o SubSeq(hash, 3, 4)
                     \o <<"/">> \o SubSeq(hash, 5, 6)
            pat == ToLower(ORIGINALS_PREFIX \o parts \o <<"/">> \o hash \o <<".">>)
            n == Len(pat)
            im == FirstTrue([j \in 1..Len(html) |->
                      /\ j + n <= Len(html)
                      /\ ToLower(SubSeq(html, j, j + n - 1)) = pat
                      /\ IsLetter(html[j + n])])
        IN  IF im = 0 THEN JNull
            ELSE JStr(SubSeq(html, im, im + n - 1 + LettersFrom(html, im + n)))

PINTEREST_SUFFIX == <<" ", "|", " ">> \o PINTEREST

\* get(selectors): the first truthy content attribute, else null.
MetaGet(page, selectors) ==
    LET i == FirstTrue([j \in 1..Len(selectors) |->
                 Truthy(MetaContent(page, selectors[j]))])
    IN IF i = 0 THEN JNull ELSE MetaContent(page, selectors[i])

extractFromMetaTags(page) ==
    LET videoUrl == MetaGet(page, <<"og:video:secure_url", "og:video:url",
                                    "og:video", "twitter:player:stream">>)
        ogImageUrl == MetaGet(page, <<"og:image", "twitter:image:src",
                                      "twitter:image">>)
        title == Or(MetaGet(page, <<"og:title", "twitter:title">>),
                    Or(JStr(Trim(ReplaceFirst(page.title, PINTEREST_SUFFIX, <<>>))),
                       JStr(PINTEREST)))
        originalsUrl == Or(findOriginalImageInHtml(page.html, ogImageUrl),
                           upgradeImageQuality(ogImageUrl))
    IN  IF Truthy(videoUrl)
        THEN MediaResult(VIDEO, videoUrl, Or(ogImageUrl, JNull), title)
        ELSE IF Truthy(ogImageUrl)
        THEN MediaResult(GifOrImage(originalsUrl), originalsUrl, ogImageUrl, title)
        ELSE JNull

\* ------------------------------------------------------------------------
\* URLs, cookies and the internal API
\* ------------------------------------------------------------------------

ID_CHARS == Range(LOWER) \cup Range(UPPER) \cup DIGITS \cup {"_", "-"}

PIN_IT == <<"p", "i", "n", ".", "i", "t", "/">>

PIN_SEG == <<"/", "p", "i", "n", "/">>

\* /pin\.it\//i.test(url)
IsShortLink(url) == Includes(ToLower(url), PIN_IT)

\* The length of the longest run of characters of set cs in s from position i.
RunFrom(s, i, cs) ==
    CHOOSE n \in 0..(Len(s) - i + 1) :
        (\A j \in 0..(n - 1) : s[i + j] \in cs)
        /\ (i + n > Len(s) \/ s[i + n] \notin cs)

\* url.match(/\/pin\/([a-zA-Z0-9_-]+)\/?/): the captured identifier or null.
extractPinId(url) ==
    LET n == Len(PIN_SEG)
        i == FirstTrue([j \in 1..Len(url) |->
                 /\ j + n <= Len(url)
                 /\ SubSeq(url, j, j + n - 1) = PIN_SEG
                 /\ url[j + n] \in ID_CHARS])
    IN IF i = 0 THEN JNull
       ELSE JStr(SubSeq(url, i + n, i + n - 1 + RunFrom(url, i + n, ID_CHARS)))

\* c.split(';')[0]
BeforeSemi(c) ==
    LET i == FirstTrue([j \in 1..Len(c) |-> c[j] = ";"])
    IN IF i = 0 THEN c ELSE SubSeq(c, 1, i - 1)

RECURSIVE JoinCookies(_)
JoinCookies(cs) ==
    IF Len(cs) = 0 THEN <<>>
    ELSE IF Len(cs) = 1 THEN cs[1]
    ELSE cs[1] \o <<";", " ">> \o JoinCookies(Tail(cs))

\* fetchPage's cookie string from the Set-Cookie headers of the response.
CookiesOf(setCookies) ==
    JoinCookies([i \in 1..Len(setCookies) |-> BeforeSemi(setCookies[i])])

CSRF_KEY == <<"c", "s", "r", "f", "t", "o", "k", "e", "n", "=">>

\* (cookies || '').match(/csrftoken=([^;]+)/): the token, '' without a match.
CsrfTokenOf(cookies) ==
    LET n == Len(CSRF_KEY)
        i == FirstTrue([j \in 1..Len(cookies) |->
                 /\ j + n <= Len(cookies)
                 /\ SubSeq(cookies, j, j + n - 1) = CSRF_KEY
                 /\ cookies[j + n] # ";"])
    IN IF i = 0 THEN <<>>
       ELSE LET rest == SubSeq(cookies, i + n, Len(cookies))
            IN BeforeSemi(rest)

\* An API request that leaves the session cookies of the page fetch behind.
ApiRequestNoCookies(pinId, cookies) ==
    [op |-> "api", url |-> pinId.s, cookies |-> <<>>, csrf |-> <<>>]

\* The request extractFromApi issues.
ApiRequest(pinId, cookies) ==
    [op |-> "api", url |-> pinId.s, cookies |-> cookies, csrf |-> CsrfTokenOf(cookies)]

\* An extractFromApi whose catch lets the request's failure through.
extractFromApiRethrow(resp) ==
    IF resp.t = "throw" THEN JThrow
    ELSE LET pin == OptGet(OptGet(resp, "resource_response"), "data")
         IN IF ~Truthy(pin) THEN JNull ELSE pinObjectToMedia(pin)

\* extractFromApi once the request has settled: resp is the response body,
\* or a value tagged "throw" when axios rejected.
extractFromApi(resp) ==
    IF resp.t = "throw" THEN JNull
    ELSE LET pin == OptGet(OptGet(resp, "resource_response"), "data")
         IN IF ~Truthy(pin) THEN JNull ELSE pinObjectToMedia(pin)

\* ------------------------------------------------------------------------
\* URL validation
\* ------------------------------------------------------------------------

StartsWithAt(s, i, pat) ==
    i + Len(pat) - 1 <= Len(s) /\ SubSeq(s, i, i + Len(pat) - 1) = pat

\* The position after ^https?:\/\/, 0 without a match.
AfterScheme(s) ==
    IF StartsWithAt(s, 1, <<"h", "t", "t", "p", "s", ":", "/", "/">>) THEN 9
    ELSE IF StartsWithAt(s, 1, <<"h", "t", "t", "p", ":", "/", "/">>) THEN 8
    ELSE 0

\* [a-zA-Z0-9_-]+\/?(\?.*)?$ from position i.
\* What the dot of a pattern does not match.
LINE_TERMINATORS == {"\n", "\r"}

IdAndTail(s, i) ==
    LET n == RunFrom(s, i, ID_CHARS)
        r == i + n
        r2 == IF r <= Len(s) /\ s[r] = "/" THEN r + 1 ELSE r
    IN  /\ n >= 1
        /\ \/ r2 > Len(s)
           \/ s[r2] = "?" /\ \A j \in (r2 + 1)..Len(s) : s[j] \notin LINE_TERMINATORS

\* The position after one group \.[a-z]{2,3} at position i, 0 without a match.
AfterTld(s, i) ==
    IF i <= Len(s) /\ s[i] = "."
    THEN LET n == RunFrom(s, i + 1, Range(LOWER))
         IN IF n \in {2, 3} THEN i + 1 + n ELSE 0
    ELSE 0

\* /^https?:\/\/(www\.)?pinterest(\.[a-z]{2,3}){1,2}\/pin\/[a-zA-Z0-9_-]+\/?(\?.*)?$/
MatchesPinPattern(s) ==
    LET a == AfterScheme(s)
        b == IF StartsWithAt(s, a, <<"w", "w", "w", ".">>) THEN a + 4 ELSE a
        c == b + Len(ToLower(PINTEREST))
        d1 == AfterTld(s, c)
        d2 == IF d1 # 0 THEN AfterTld(s, d1) ELSE 0
        d == IF d2 # 0 THEN d2 ELSE d1
    IN  /\ a # 0
        /\ StartsWithAt(s, b, ToLower(PINTEREST))
        /\ d1 # 0
        /\ StartsWithAt(s, d, PIN_SEG)
        /\ IdAndTail(s, d + Len(PIN_SEG))

\* /^https?:\/\/pin\.it\/[a-zA-Z0-9_-]+\/?(\?.*)?$/
MatchesShortPattern(s) ==
    LET a == AfterScheme(s)
    IN  /\ a # 0
        /\ StartsWithAt(s, a, PIN_IT)
        /\ IdAndTail(s, a + Len(PIN_IT))

MAX_URL_LEN == 2048

\* The two shapes of the validator's result; the text of the last error is
\* cut after its first sentence.
Rejected(error) == [valid |-> FALSE, error |-> error]

Accepted(u) == [valid |-> TRUE, url |-> u]

validateUntrimmed(u) ==
    IF ~Truthy(u) \/ ~IsString(u)
    THEN Rejected("Field \"url\" is required and must be a string.")
    ELSE LET trimmed == Trim(u.s) IN
         IF Len(trimmed) > MAX_URL_LEN
         THEN Rejected("URL exceeds maximum length of 2048 characters.")
         ELSE IF ~(MatchesPinPattern(trimmed) \/ MatchesShortPattern(trimmed))
         THEN Rejected("Invalid Pinterest URL.")
         ELSE Accepted(u.s)

validatePinterestUrl(u) ==
    IF ~Truthy(u) \/ ~IsString(u)
    THEN Rejected("Field \"url\" is required and must be a string.")
    ELSE LET trimmed == Trim(u.s) IN
         IF Len(trimmed) > MAX_URL_LEN
         THEN Rejected("URL exceeds maximum length of 2048 characters.")
         ELSE IF ~(MatchesPinPattern(trimmed) \/ MatchesShortPattern(trimmed))
         THEN Rejected("Invalid Pinterest URL.")
         ELSE Accepted(trimmed)

\* ------------------------------------------------------------------------
\* Errors and the error handler
\* ------------------------------------------------------------------------
\* An error object: response is the status of err.response (0: no response),
\* code is err.code ("": none), statusCode is err.statusCode (0: none).

Err(name, response, code, statusCode, message) ==
    [name |-> name, response |-> response, code |-> code,
     statusCode |-> statusCode, message |-> message]

NoErr == Err("", 0, "", 0, "")

\* What axios rejects with: a response outside the accepted statuses, or a
\* failure below HTTP.
AxiosStatusError(st) ==
    Err("AxiosError", st, IF st >= 500 THEN "ERR_BAD_RESPONSE" ELSE "ERR_BAD_REQUEST",
        0, "Request failed with status code")

AxiosNetError(code) == Err("AxiosError", 0, code, 0, "network failure")

TypeErrorOf == Err("TypeError", 0, "", 0, "not a function or not iterable")

\* resolveShortUrl's catch: a new plain Error around the cause's message.
ResolutionError(cause) ==
    Err("Error", 0, "", 0, "Unable to resolve short URL")

UNRESOLVED_MSG ==
    "Could not extract media from this pin. The pin may be private, deleted, or Pinterest may have changed its page structure."

\* The final error without its status marker.
PlainUnresolvedError == Err("Error", 0, "", 0, UNRESOLVED_MSG)

UnresolvedMediaError == Err("Error", 0, "", 422, UNRESOLVED_MSG)

Response(status, success, error, media) ==
    [status |-> status, success |-> success, error |-> error, media |-> media]

\* An errorHandler that looks at the error code before the upstream response.
errorHandlerCodeFirst(err) ==
    IF err.code = "ECONNABORTED" \/ err.code = "ETIMEDOUT"
    THEN Response(504, FALSE, "The request to Pinterest timed out. Please try again.", JUndef)
    ELSE IF err.code = "ENOTFOUND" \/ err.code = "EAI_AGAIN"
    THEN Response(502, FALSE, "DNS lookup failed. Cannot reach Pinterest.", JUndef)
    ELSE IF err.response # 0
    THEN IF err.response = 404
         THEN Response(404, FALSE, "Pinterest pin not found. The URL may be invalid or the pin may have been deleted.", JUndef)
         ELSE IF err.response = 403 \/ err.response = 401
         THEN Response(403, FALSE, "Access denied by Pinterest. The pin may be private.", JUndef)
         ELSE IF err.response = 429
         THEN Response(429, FALSE, "Pinterest is rate-limiting our requests. Please try again in a moment.", JUndef)
         ELSE Response(502, FALSE, "Pinterest returned an unexpected response. Please try again.", JUndef)
    ELSE IF err.statusCode # 0
    THEN Response(err.statusCode, FALSE, err.message, JUndef)
    ELSE Response(500, FALSE, "An unexpected error occurred. Please try again later.", JUndef)

\* The error-handling middleware: the response it sends for err.  The text of
\* the 502 answer, which quotes the upstream status, and the DNS text are
\* shortened; none of the fixed texts is empty.
errorHandler(err) ==
    IF err.response # 0
    THEN IF err.response = 404
         THEN Response(404, FALSE, "Pinterest pin not found. The URL may be invalid or the pin may have been deleted.", JUndef)
         ELSE IF err.response = 403 \/ err.response = 401
         THEN Response(403, FALSE, "Access denied by Pinterest. The pin may be private.", JUndef)
         ELSE IF err.response = 429
         THEN Response(429, FALSE, "Pinterest is rate-limiting our requests. Please try again in a moment.", JUndef)
         ELSE Response(502, FALSE, "Pinterest returned an unexpected response. Please try again.", JUndef)
    ELSE IF err.code = "ECONNABORTED" \/ err.code = "ETIMEDOUT"
    THEN Response(504, FALSE, "The request to Pinterest timed out. Please try again.", JUndef)
    ELSE IF err.code = "ENOTFOUND" \/ err.code = "EAI_AGAIN"
    THEN Response(502, FALSE, "DNS lookup failed. Cannot reach Pinterest.", JUndef)
    ELSE IF err.statusCode # 0
    THEN Response(err.statusCode, FALSE, err.message, JUndef)
    ELSE Response(500, FALSE, "An unexpected error occurred. Please try again later.", JUndef)

\* ------------------------------------------------------------------------
\* Inputs of the pipeline: request URLs, upstream responses, pages
\* ------------------------------------------------------------------------

U_CANON == <<"h", "t", "t", "p", "s", ":", "/", "/", "w", "w", "w", ".", "p", "i", "n", "t", "e", "r", "e", "s", "t", ".", "c", "o", "m", "/", "p", "i", "n", "/", "1", "2", "/">>

U_SHORT == <<"h", "t", "t", "p", "s", ":", "/", "/", "p", "i", "n", ".", "i", "t", "/", "A", "b">>

U_QUERY == <<"h", "t", "t", "p", "s", ":", "/", "/", "p", "i", "n", "t", "e", "r", "e", "s", "t", ".", "c", "o", "m", "/", "p", "i", "n", "/", "1", "2", "/", "?", "s", "=", "p", "i", "n", ".", "i", "t", "/", "x">>

U_HOME == <<"h", "t", "t", "p", "s", ":", "/", "/", "w", "w", "w", ".", "p", "i", "n", "t", "e", "r", "e", "s", "t", ".", "c", "o", "m", "/">>

U_BOARD == <<"h", "t", "t", "p", "s", ":", "/", "/", "w", "w", "w", ".", "p", "i", "n", "t", "e", "r", "e", "s", "t", ".", "c", "o", "m", "/", "u", "s", "e", "r", "/", "b", "o", "a", "r", "d", "/">>

\* req.body?.url: pin URLs and short links (one padded with blanks), and values
\* the validator rejects.
ReqUrls ==
    { JStr(U_CANON), JStr(U_SHORT), JStr(U_QUERY), JStr(<<" ">> \o U_SHORT \o <<" ">>),
      JStr(U_BOARD), JNum(42), JUndef }

\* res.request.res.responseUrl after the redirects: a pin page, a page that is
\* no pin, or not set.
ResponseUrls == {JStr(U_CANON), JStr(U_HOME), JUndef}

UpstreamStatuses == {401, 403, 404, 429, 500}

NetCodes == {"ECONNABORTED", "ETIMEDOUT", "ENOTFOUND", "EAI_AGAIN", "ECONNREFUSED"}

\* What an axios request can reject with.
AxiosFailures ==
    {AxiosStatusError(st) : st \in UpstreamStatuses}
    \cup {AxiosNetError(c) : c \in NetCodes}

SetCookieOpts == {<<>>, <<<<"s", "i", "d", "=", "1", ";", " ", "P", "a", "t", "h", "=", "/">>, <<"c", "s", "r", "f", "t", "o", "k", "e", "n", "=", "a", "b", ";", " ", "S", "e", "c", "u", "r", "e">>>>}

Url(stem, ext) == JStr(<<"h", ":", "/", "/">> \o stem \o ext)

Entry(url) == Lit(<<P("url", url)>>)

SIZED_URL == <<"h", "t", "t", "p", "s", ":", "/", "/", "i", ".", "p", "i", "n", "i", "m", "g", ".", "c", "o", "m", "/", "7", "3", "6", "x", "/", "a", "b", "/", "c", "d", "/", "e", "f", "/", "a", "b", "c", "d", "e", "f", "0", "1", "2", "3", "4", "5", "6", "7", "8", "9", "0", "1", "2", "3", "4", "5", "6", "7", "8", "9", "a", "b", "c", "d", "e", "f", ".", "j", "p", "g">>

ORIG_URL == <<"h", "t", "t", "p", "s", ":", "/", "/", "i", ".", "p", "i", "n", "i", "m", "g", ".", "c", "o", "m", "/", "o", "r", "i", "g", "i", "n", "a", "l", "s", "/", "a", "b", "/", "c", "d", "/", "e", "f", "/", "a", "b", "c", "d", "e", "f", "0", "1", "2", "3", "4", "5", "6", "7", "8", "9", "0", "1", "2", "3", "4", "5", "6", "7", "8", "9", "a", "b", "c", "d", "e", "f", ".", "p", "n", "g">>

ImagesOf(url) == Lit(<<P("236x", Entry(JStr(<<"t">> \o JPG))), P("orig", Entry(url))>>)

PinOf(title, images, videoList) ==
    Lit(<<P("title", title), P("images", images),
          P("videos", Lit(<<P("video_list", videoList)>>))>>)

VideoPin(stem) ==
    PinOf(JStr(<<"T">>), ImagesOf(JStr(SIZED_URL)),
          Lit(<<P("V_HLSV4", Entry(Url(stem, M3U8))), P("V_720P", Entry(Url(stem, MP4)))>>))

ImagePin(stem) == PinOf(JUndef, ImagesOf(Url(stem, GIF)), JUndef)

\* A pin whose video entry carries a number where the URL string belongs.
NumberUrlPin == PinOf(JUndef, JUndef, Lit(<<P("V_720P", Entry(JNum(5)))>>))

Script(id, hasSrc, brace, marks, form, ok, semi, json) ==
    [id |-> id, hasSrc |-> hasSrc, brace |-> brace, marks |-> marks,
     form |-> form, ok |-> ok, semi |-> semi, json |-> json]

SrcScript == Script("", TRUE, FALSE, {}, "other", FALSE, FALSE, JUndef)

ReduxScript(state) ==
    Script("", FALSE, TRUE, {REDUX_MARK}, "bare", TRUE, FALSE,
           Lit(<<P("otaData", JObj(<<>>)), P(REDUX_MARK, state)>>))

PwsScript(data, semi) ==
    Script("", FALSE, FALSE, {"__PWS_INITIAL_DATA__"}, "assign", TRUE, semi, data)

RelayScript(json, ok) ==
    Script("", FALSE, FALSE, {RELAY_MARK}, "relay", ok, FALSE, json)

ReduxOpts ==
    { <<>>,
      <<ReduxScript(Lit(<<P("pins", Lit(<<P("12", VideoPin(<<"r">>))>>))>>))>>,
      <<ReduxScript(Lit(<<P("pins", JObj(<<>>)),
            P("resources", Lit(<<P("PinResource",
                Lit(<<P("k", Lit(<<P("data", ImagePin(<<"r">>))>>))>>))>>))>>))>>,
      <<ReduxScript(Lit(<<P("pins", Lit(<<P("12", NumberUrlPin)>>))>>))>> }

PwsOpts ==
    { <<>>,
      <<PwsScript(Lit(<<P("a", VideoPin(<<"p">>))>>), FALSE)>>,
      <<PwsScript(Lit(<<P("a", VideoPin(<<"p">>))>>), TRUE)>> }

RelayOpts ==
    { <<>>,
      <<RelayScript(Lit(<<P("videoList720P",
            Lit(<<P("v720P", Entry(Url(<<"l">>, MP4)))>>))>>), TRUE)>>,
      <<RelayScript(JUndef, FALSE),
        RelayScript(Lit(<<P("v_hlsv4_video_list",
            Lit(<<P("vHLSV4", Entry(Url(<<"l">>, M3U8)))>>))>>), TRUE)>> }

Meta(sel, content) == [sel |-> sel, content |-> content]

MetaOpts ==
    { [meta |-> <<>>, title |-> <<>>, html |-> <<>>],
      [meta |-> <<Meta("og:video", Url(<<"m">>, MP4)), Meta("og:image", JStr(SIZED_URL))>>,
       title |-> <<"D">> \o PINTEREST_SUFFIX, html |-> <<>>],
      [meta |-> <<Meta("og:title", JStr(<<"S">>)), Meta("og:image", JStr(SIZED_URL))>>,
       title |-> <<>>, html |-> <<"<">> \o ORIG_URL \o <<"\"">>] }

Pages ==
    { [scripts |-> <<SrcScript>> \o r \o p \o l, meta |-> m.meta,
       title |-> m.title, html |-> m.html] :
        r \in ReduxOpts, p \in PwsOpts, l \in RelayOpts, m \in MetaOpts }

NoPage == [scripts |-> <<>>, meta |-> <<>>, title |-> <<>>, html |-> <<>>]

ApiBody(pin) == Lit(<<P("resource_response", Lit(<<P("data", pin)>>))>>)

\* Response bodies of the internal API: pin data, no data, a body that is not
\* the JSON object the front end gets.
ApiBodies ==
    { ApiBody(VideoPin(<<"a">>)), ApiBody(ImagePin(<<"a">>)), ApiBody(JNull),
      JStr(<<"<">>), ApiBody(NumberUrlPin) }

\* ------------------------------------------------------------------------
\* POST /api/extract: the route, extractPinterestMedia, the error handler
\* ------------------------------------------------------------------------

Req(op, u) == [op |-> op, url |-> u, cookies |-> <<>>, csrf |-> <<>>]

Completion(kind, value, at) == [kind |-> kind, value |-> value, at |-> at]

\* The rate limiter has seen no request.
LimiterIdle ==
    /\ now = 0
    /\ hitStore = <<>>
    /\ browserStore = <<>>
    /\ apiKeyEnv = JUndef
    /\ passed = <<>>
    /\ lastReq = <<>>

\* No selector is called on its own.
SelectorIdle ==
    /\ spc = "off"
    /\ selFn = ""
    /\ selArg = JUndef
    /\ selRet = JUndef

\* deepFind is not called on a graph.
GraphIdle ==
    /\ heap = <<>>
    /\ dfRoot = JUndef
    /\ dfpc = "off"
    /\ dfStack = <<>>
    /\ dfSeen = {}
    /\ dfOut = <<>>
    /\ dfExpanded = <<>>
    /\ dfSteps = 0

\* No call of extractWithBrowser is under way.
BrowserIdle ==
    /\ bpc = "off"
    /\ pinUrl = <<>>
    /\ apiResult = JUndef
    /\ browser = "null"
    /\ calls = <<>>
    /\ capturedVideoUrls = <<>>
    /\ bestVideoFromApi = JNull
    /\ bThumbnail = JNull
    /\ bTitle = <<>>
    /\ outcome = Completion("pending", JUndef, "")
    /\ peer = [captured |-> <<>>, best |-> JNull]

Init ==
    /\ pc = "idle"
    /\ reqUrl \in ReqUrls
    /\ curUrl = <<>>
    /\ curPage = NoPage
    /\ cookieStr = <<>>
    /\ resolveErr = NoErr
    /\ apiResp = JUndef
    /\ apiErr = NoErr
    /\ invoked = <<>>
    /\ net = <<>>
    /\ inflight = 0
    /\ ret = JUndef
    /\ thrown = NoErr
    /\ sent = <<>>
    /\ convPin = JUndef
    /\ BrowserIdle
    /\ LimiterIdle
    /\ SelectorIdle
    /\ GraphIdle

\* The value paired with x in a table of <<input, output>> pairs.
Paired(table, x) == (CHOOSE p \in table : p[1] = x)[2]

\* What the validator answers for each request body.
Validations == {<<u, validatePinterestUrl(u)>> : u \in ReqUrls}

\* The validator's answer for a request body.
Validated(u) ==
    IF \E p \in Validations : p[1] = u
    THEN Paired(Validations, u)
    ELSE validatePinterestUrl(u)

\* What each strategy finds in each page.
ReduxOutcomes == {<<pg, extractFromReduxState(pg)>> : pg \in Pages}

PwsOutcomes == {<<pg, extractFromPWSData(pg)>> : pg \in Pages}

RelayOutcomes == {<<pg, extractFromRelayScripts(pg)>> : pg \in Pages}

MetaOutcomes == {<<pg, extractFromMetaTags(pg)>> : pg \in Pages}

\* The route rejects a URL that fails validation.
RouteInvalid ==
    /\ pc = "idle"
    /\ ~Validated(reqUrl).valid
    /\ sent' = Append(sent, Response(400, FALSE, Validated(reqUrl).error, JUndef))
    /\ pc' = "responded"
    /\ UNCHANGED <<reqUrl, curUrl, curPage, cookieStr, resolveErr, apiResp, apiErr,
                   invoked, net, inflight, ret, thrown>>
    /\ UNCHANGED others

\* The route validated the URL and calls extractPinterestMedia, which either
\* starts resolving a short link or starts the page fetch.
ExtractBegin ==
    /\ pc = "idle"
    /\ Validated(reqUrl).valid
    /\ \E u \in {Validated(reqUrl).url} :
        /\ curUrl' = u
        /\ IF IsShortLink(u)
           THEN pc' = "resolving" /\ net' = Append(net, Req("resolve", u))
           ELSE pc' = "fetching" /\ net' = Append(net, Req("fetch", u))
    /\ inflight' = inflight + 1
    /\ UNCHANGED <<reqUrl, curPage, cookieStr, resolveErr, apiResp, apiErr, invoked,
                   ret, thrown, sent>>
    /\ UNCHANGED others

\* resolveShortUrl's request succeeded: the final URL, else config.url, else
\* the url itself; then fetchPage starts.
ResolveOk ==
    /\ pc = "resolving"
    /\ \E responseUrl \in ResponseUrls :
        LET resolved == Or(responseUrl, Or(JStr(curUrl), JStr(curUrl))).s IN
        /\ curUrl' = resolved
        /\ net' = Append(net, Req("fetch", resolved))
    /\ inflight' = (inflight - 1) + 1
    /\ pc' = "fetching"
    /\ UNCHANGED <<reqUrl, curPage, cookieStr, resolveErr, apiResp, apiErr, invoked,
                   ret, thrown, sent>>
    /\ UNCHANGED others

\* A resolveShortUrl that swallows the failure and goes on with the short URL.
ResolveFailContinue ==
    /\ pc = "resolving"
    /\ \E cause \in AxiosFailures : resolveErr' = cause
    /\ net' = Append(net, Req("fetch", curUrl))
    /\ inflight' = (inflight - 1) + 1
    /\ pc' = "fetching"
    /\ UNCHANGED <<reqUrl, curUrl, curPage, cookieStr, apiResp, apiErr, invoked,
                   ret, thrown, sent>>
    /\ UNCHANGED others

\* resolveShortUrl's request failed: a status >= 400 or a network failure.
\* The catch throws the resolution error out of extractPinterestMedia.
ResolveFail ==
    /\ pc = "resolving"
    /\ \E cause \in AxiosFailures :
        /\ resolveErr' = cause
        /\ thrown' = ResolutionError(cause)
    /\ inflight' = inflight - 1
    /\ pc' = "thrown"
    /\ UNCHANGED <<reqUrl, curUrl, curPage, cookieStr, apiResp, apiErr, invoked, net,
                   ret, sent>>
    /\ UNCHANGED others

\* fetchPage succeeded; with a pin identifier the internal API is called.
FetchOk ==
    /\ pc = "fetching"
    /\ \E pg \in Pages, setCookies \in SetCookieOpts :
        LET ck == CookiesOf(setCookies)
            pinId == extractPinId(curUrl)
        IN  /\ curPage' = pg
            /\ cookieStr' = ck
            /\ IF Truthy(pinId)
               THEN /\ pc' = "api"
                    /\ invoked' = Append(invoked, "api")
                    /\ net' = Append(net, ApiRequest(pinId, ck))
                    /\ inflight' = (inflight - 1) + 1
               ELSE /\ pc' = "redux"
                    /\ inflight' = inflight - 1
                    /\ UNCHANGED <<invoked, net>>
    /\ UNCHANGED <<reqUrl, curUrl, resolveErr, apiResp, apiErr, ret, thrown, sent>>
    /\ UNCHANGED others

\* fetchPage's request failed: the axios error leaves extractPinterestMedia.
FetchFail ==
    /\ pc = "fetching"
    /\ \E e \in AxiosFailures : thrown' = e
    /\ inflight' = inflight - 1
    /\ pc' = "thrown"
    /\ UNCHANGED <<reqUrl, curUrl, curPage, cookieStr, resolveErr, apiResp, apiErr,
                   invoked, net, ret, sent>>
    /\ UNCHANGED others

\* A pipeline that keeps going after a strategy found media and returns only
\* what the last strategy finds.
SettleNoShortCircuit(r, next) ==
    IF r.t = "throw"
    THEN pc' = "thrown" /\ thrown' = TypeErrorOf /\ UNCHANGED ret
    ELSE IF next = "unresolved" /\ Truthy(r)
    THEN pc' = "returned" /\ ret' = r /\ UNCHANGED thrown
    ELSE IF next = "unresolved"
    THEN pc' = "thrown" /\ thrown' = UnresolvedMediaError /\ UNCHANGED ret
    ELSE pc' = next /\ UNCHANGED <<ret, thrown>>

\* What the pipeline does with a strategy's outcome r: a thrown exception
\* leaves extractPinterestMedia, a truthy result is returned, none moves on
\* to the next strategy, and after the last one the 422 error is thrown.
Settle(r, next) ==
    IF r.t = "throw"
    THEN pc' = "thrown" /\ thrown' = TypeErrorOf /\ UNCHANGED ret
    ELSE IF Truthy(r)
    THEN pc' = "returned" /\ ret' = r /\ UNCHANGED thrown
    ELSE IF next = "unresolved"
    THEN pc' = "thrown" /\ thrown' = UnresolvedMediaError /\ UNCHANGED ret
    ELSE pc' = next /\ UNCHANGED <<ret, thrown>>

\* The internal-API request settled with a response body.
ApiOk ==
    /\ pc = "api"
    /\ \E body \in ApiBodies :
        /\ apiResp' = body
        /\ Settle(extractFromApi(body), "redux")
    /\ inflight' = inflight - 1
    /\ UNCHANGED <<reqUrl, curUrl, curPage, cookieStr, resolveErr, apiErr, invoked,
                   net, sent>>
    /\ UNCHANGED others

\* The internal-API request failed.
ApiFail ==
    /\ pc = "api"
    /\ \E e \in AxiosFailures : apiErr' = e
    /\ apiResp' = JThrow
    /\ Settle(extractFromApi(JThrow), "redux")
    /\ inflight' = inflight - 1
    /\ UNCHANGED <<reqUrl, curUrl, curPage, cookieStr, resolveErr, invoked, net, sent>>
    /\ UNCHANGED others

\* One synchronous strategy over the fetched page.
Strategy(at, name, r, next) ==
    /\ pc = at
    /\ invoked' = Append(invoked, name)
    /\ \E found \in {r} : Settle(found, next)
    /\ UNCHANGED <<reqUrl, curUrl, curPage, cookieStr, resolveErr, apiResp, apiErr,
                   net, inflight, sent>>
    /\ UNCHANGED others

Redux == Strategy("redux", "redux", Paired(ReduxOutcomes, curPage), "pws")

Pws == Strategy("pws", "pws", Paired(PwsOutcomes, curPage), "relay")

Relay == Strategy("relay", "relay", Paired(RelayOutcomes, curPage), "meta")

MetaTags == Strategy("meta", "meta", Paired(MetaOutcomes, curPage), "unresolved")

\* The route's success response.
RouteSuccess ==
    /\ pc = "returned"
    /\ sent' = Append(sent, Response(200, TRUE, "", ret))
    /\ pc' = "responded"
    /\ UNCHANGED <<reqUrl, curUrl, curPage, cookieStr, resolveErr, apiResp, apiErr,
                   invoked, net, inflight, ret, thrown>>
    /\ UNCHANGED others

\* The route's catch: next(err) reaches errorHandler, which answers.
RouteError ==
    /\ pc = "thrown"
    /\ sent' = Append(sent, errorHandler(thrown))
    /\ pc' = "responded"
    /\ UNCHANGED <<reqUrl, curUrl, curPage, cookieStr, resolveErr, apiResp, apiErr,
                   invoked, net, inflight, ret, thrown>>
    /\ UNCHANGED others

Next ==
    \/ RouteInvalid
    \/ ExtractBegin
    \/ ResolveOk
    \/ ResolveFail
    \/ FetchOk
    \/ FetchFail
    \/ ApiOk
    \/ ApiFail
    \/ Redux
    \/ Pws
    \/ Relay
    \/ MetaTags
    \/ RouteSuccess
    \/ RouteError

Spec == Init /\ [][Next]_vars

\* ------------------------------------------------------------------------
\* Properties of the pipeline
\* ------------------------------------------------------------------------

PRIORITY == <<"api", "redux", "pws", "relay", "meta">>

IsPrefix(s, t) == Len(s) <= Len(t) /\ SubSeq(t, 1, Len(s)) = s

IsNone(r) == r.t # "throw" /\ ~Truthy(r)

IsResult(r) == r.t # "throw" /\ Truthy(r)

\* What the named strategy yields on the page and API answer of this state.
OutcomeOf(name) ==
    CASE name = "api" -> extractFromApi(apiResp)
      [] name = "redux" -> extractFromReduxState(curPage)
      [] name = "pws" -> extractFromPWSData(curPage)
      [] name = "relay" -> extractFromRelayScripts(curPage)
      [] OTHER -> extractFromMetaTags(curPage)

Ended == pc \in {"returned", "thrown", "responded"}

Ops == [i \in 1..Len(net) |-> net[i].op]

\* C1: the strategies are invoked in the order API, Redux, PWS, Relay, meta
\* tags, the API first exactly when the URL carries a pin identifier; every
\* strategy invoked before the last one yielded none, and a returned value is
\* the non-none result of the last strategy invoked.
C1_StrategyOrder ==
    /\ IF Truthy(extractPinId(curUrl))
       THEN IsPrefix(invoked, PRIORITY)
       ELSE IsPrefix(invoked, Tail(PRIORITY))
    /\ \A i \in 1..(Len(invoked) - 1) : IsNone(OutcomeOf(invoked[i]))
    /\ pc \in {"returned", "responded"} /\ ret # JUndef =>
        /\ invoked # <<>>
        /\ ret = OutcomeOf(invoked[Len(invoked)])
        /\ IsResult(ret)

\* The Redux blob and the meta tags resolve to different video URLs, the API
\* gave nothing, and the Redux result was returned without going further.
C1_Witness ==
    /\ pc = "returned"
    /\ invoked = <<"api", "redux">>
    /\ Get(ret, "type") = JStr(VIDEO)
    /\ Get(extractFromMetaTags(curPage), "type") = JStr(VIDEO)
    /\ Get(extractFromMetaTags(curPage), "media_url") # Get(ret, "media_url")
    /\ ret = extractFromReduxState(curPage)

\* The page was fetched and no strategy finds anything in it or in the API's
\* answer.
AllNone ==
    /\ curPage # NoPage
    /\ "api" \in Range(invoked) => IsNone(extractFromApi(apiResp))
    /\ \A i \in 2..5 : IsNone(OutcomeOf(PRIORITY[i]))

\* C2: when every strategy yields none, extractPinterestMedia ends by
\* throwing an error with statusCode 422 and the fixed advisory message; it
\* returns nothing.
C2_Unresolved422 ==
    Ended /\ AllNone =>
        /\ thrown.statusCode = 422
        /\ thrown.message = "Could not extract media from this pin. The pin may be private, deleted, or Pinterest may have changed its page structure."
        /\ ret = JUndef

C2_Witness ==
    /\ pc = "thrown"
    /\ AllNone
    /\ invoked = PRIORITY
    /\ thrown.statusCode = 422

\* C4: once the short-link request has failed, extractPinterestMedia has ended
\* with the resolution error: the only request ever issued is that one
\* resolve, no page was fetched, no strategy was invoked, nothing is returned.
C4_ResolutionFatal ==
    resolveErr # NoErr =>
        /\ pc \in {"thrown", "responded"}
        /\ thrown.message = "Unable to resolve short URL"
        /\ Ops = <<"resolve">>
        /\ curPage = NoPage
        /\ invoked = <<>>
        /\ ret = JUndef
        /\ inflight = 0

C4_Witness ==
    /\ pc = "thrown"
    /\ resolveErr = AxiosNetError("ETIMEDOUT")
    /\ IsShortLink(curUrl)

\* The first result among the four page strategies, none if there is none.
PageOutcome == FirstResult([i \in 1..4 |-> OutcomeOf(PRIORITY[i + 1])])

\* C5: once the internal-API request has failed, the API strategy has yielded
\* none, the error was not thrown, the pipeline went on to Redux, and the call
\* ends with what the page strategies give: their first result if there is
\* one.
C5_ApiFailureSwallowed ==
    apiErr # NoErr =>
        /\ IsNone(extractFromApi(apiResp))
        /\ thrown # apiErr
        /\ pc = "redux" \/ (Len(invoked) >= 2 /\ invoked[2] = "redux")
        /\ Ended /\ IsResult(PageOutcome) => ret = PageOutcome /\ thrown = NoErr
        /\ Ended /\ IsNone(PageOutcome) => thrown.statusCode = 422

C5_Witness ==
    /\ apiErr = AxiosStatusError(403)
    /\ pc = "returned"
    /\ invoked = <<"api", "redux", "pws", "relay">>

\* C6: the requests of one call are an optional resolve, then one page fetch,
\* then at most one API request, which carries the cookies of that fetch; a
\* short link is resolved first; strategies run only after the fetch, the page
\* strategies with no request in flight and without issuing one; at most one
\* request is in flight.
C6_RequestOrder ==
    /\ Ops \in {<<>>, <<"resolve">>, <<"fetch">>, <<"resolve", "fetch">>,
                <<"fetch", "api">>, <<"resolve", "fetch", "api">>}
    /\ inflight \in {0, 1}
    /\ /\ pc # "idle"
       /\ validatePinterestUrl(reqUrl).valid
       /\ IsShortLink(validatePinterestUrl(reqUrl).url)
       => Ops[1] = "resolve"
    /\ invoked # <<>> => "fetch" \in Range(Ops) /\ curPage # NoPage
    /\ "api" \in Range(Ops) <=> "api" \in Range(invoked)
    /\ \A i \in 1..Len(net) : net[i].op = "api" => net[i].cookies = cookieStr
    /\ Range(invoked) \ {"api"} # {} => inflight = 0
    /\ pc \in {"redux", "pws", "relay", "meta"} => inflight = 0

C6_Witness ==
    /\ Ops = <<"resolve", "fetch", "api">>
    /\ cookieStr # <<>>
    /\ invoked = PRIORITY
    /\ pc = "returned"

\* C9: for a URL that passes validation the response is never a 500, and a
\* failure response carries a non-empty error.
C9_Never500 ==
    pc = "responded" /\ validatePinterestUrl(reqUrl).valid =>
        /\ Len(sent) = 1
        /\ sent[1].status # 500
        /\ ~sent[1].success => sent[1].error # ""

\* ------------------------------------------------------------------------
\* errorHandler on the errors any middleware can hand it
\* ------------------------------------------------------------------------

\* Errors with and without an upstream response, an error code, a statusCode
\* and a message, in every combination.
ErrInputs ==
    { Err("Error", r, c, s, m) :
        r \in {0, 302} \cup UpstreamStatuses,
        c \in {""} \cup NetCodes,
        s \in {0, 400, 422},
        m \in {"", "Cannot extract media"} }

InitHandler ==
    /\ pc = "thrown"
    /\ thrown \in ErrInputs
    /\ reqUrl = JUndef
    /\ curUrl = <<>>
    /\ curPage = NoPage
    /\ cookieStr = <<>>
    /\ resolveErr = NoErr
    /\ apiResp = JUndef
    /\ apiErr = NoErr
    /\ invoked = <<>>
    /\ net = <<>>
    /\ inflight = 0
    /\ ret = JUndef
    /\ sent = <<>>
    /\ convPin = JUndef
    /\ BrowserIdle
    /\ LimiterIdle
    /\ SelectorIdle
    /\ GraphIdle

SpecHandler == InitHandler /\ [][RouteError]_vars

\* The status the rules give, taken in their order.
RuleStatus(err) ==
    IF err.response # 0
    THEN CASE err.response = 404 -> 404
           [] err.response \in {401, 403} -> 403
           [] err.response = 429 -> 429
           [] OTHER -> 502
    ELSE IF err.code \in {"ECONNABORTED", "ETIMEDOUT"} THEN 504
    ELSE IF err.code \in {"ENOTFOUND", "EAI_AGAIN"} THEN 502
    ELSE IF err.statusCode # 0 THEN err.statusCode
    ELSE 500

\* The statusCode rule is the first that applies.
ByStatusCode(err) ==
    /\ err.response = 0
    /\ err.code \notin {"ECONNABORTED", "ETIMEDOUT", "ENOTFOUND", "EAI_AGAIN"}
    /\ err.statusCode # 0

TitleOpts == {JUndef, JStr(<<"T">>), JStr(<<" ">>), JNum(7)}

DescOpts == {JUndef, JStr(<<" ", "D">>)}

\* images: absent, a JPEG, a GIF, and entries whose url is not a string.
ImageOpts ==
    { JUndef, ImagesOf(JStr(SIZED_URL)), ImagesOf(Url(<<"i">>, GIF)),
      ImagesOf(JNum(5)), ImagesOf(JArr(<<P("0", Url(<<"i">>, JPG))>>)) }

\* videos.video_list: absent, an MP4, HLS only, and entries whose url is not
\* a string.
VideoListOpts ==
    { JUndef,
      Lit(<<P("V_720P", Entry(Url(<<"v">>, MP4)))>>),
      Lit(<<P("V_HLSV4", Entry(Url(<<"v">>, M3U8)))>>),
      Lit(<<P("V_720P", Entry(JArr(<<P("0", Url(<<"v">>, MP4))>>)))>>),
      Lit(<<P("V_720P", Entry(JNum(5)))>>) }

StoryOpts ==
    { JUndef,
      Lit(<<P("pages", JArr(<<P("0", Lit(<<
          P("blocks", JArr(<<P("0", Lit(<<P("video",
              Lit(<<P("video_list",
                  Lit(<<P("V_EXP7", Entry(Url(<<"s">>, MP4)))>>))>>))>>))>>)),
          P("image", ImagesOf(Url(<<"c">>, JPG)))>>))>>))>>) }

PinInputs ==
    { Lit(<<P("title", t), P("description", d), P("images", i),
            P("videos", IF v = JUndef THEN JUndef ELSE Lit(<<P("video_list", v)>>)),
            P("story_pin_data", s)>>) :
        t \in TitleOpts, d \in DescOpts, i \in ImageOpts, v \in VideoListOpts,
        s \in StoryOpts }
    \cup {JNull, JStr(<<"x">>)}

\* Pins with their video in one place or another: directly under videos,
\* in the blocks of story pages, or anywhere else.
INDEX == <<"0", "1", "2", "3">>

ArrayOf(elems) == JArr([i \in 1..Len(elems) |-> P(INDEX[i], elems[i])])

Mp4List(stem) == Lit(<<P("V_720P", Entry(Url(stem, MP4)))>>)

HlsList(stem) == Lit(<<P("V_HLSV4", Entry(Url(stem, M3U8)))>>)

Block(videoList) == Lit(<<P("video", Lit(<<P("video_list", videoList)>>))>>)

NestedBlock(videoList) == Lit(<<P("block", Block(videoList))>>)

Page(blocks, image) == Lit(<<P("blocks", ArrayOf(blocks)), P("image", image)>>)

Cover(stem) == Lit(<<P("orig", Entry(Url(stem, JPG)))>>)

SourceImageOpts ==
    { JUndef, ImagesOf(JStr(SIZED_URL)), ImagesOf(Url(<<"i">>, <<".", "G", "I", "F">>)),
      Lit(<<>>) }

SourceVideoOpts == {JUndef, Mp4List(<<"v">>), HlsList(<<"v">>)}

\* Story pages: one page with a video and a cover; a page without usable
\* video before a page with a nested video and a cover; a page with two
\* videos and no cover; no usable video; pages that are no array.
SourceStoryOpts ==
    { JUndef,
      ArrayOf(<<Page(<<Block(Mp4List(<<"s">>))>>, Cover(<<"c">>))>>),
      ArrayOf(<<Page(<<Lit(<<P("text", JStr(<<"x">>))>>), Block(HlsList(<<"h">>))>>,
                     Cover(<<"c", "1">>)),
                Page(<<NestedBlock(Mp4List(<<"n">>))>>, Cover(<<"c", "2">>))>>),
      ArrayOf(<<Page(<<Block(Mp4List(<<"p">>)), Block(Mp4List(<<"q">>))>>, JUndef)>>),
      ArrayOf(<<JNull, Page(<<Block(HlsList(<<"h">>))>>, Cover(<<"c">>))>>),
      Lit(<<P("first", Page(<<Block(Mp4List(<<"o">>))>>, Cover(<<"c">>)))>>) }

SourceExtraOpts ==
    { JUndef, Lit(<<P("video_list", Mp4List(<<"d">>))>>),
      Lit(<<P("video_list", HlsList(<<"d">>))>>) }

VideoSourceInputs ==
    { Lit(<<P("images", i),
            P("videos", IF v = JUndef THEN JUndef ELSE Lit(<<P("video_list", v)>>)),
            P("story_pin_data", IF s = JUndef THEN JUndef ELSE Lit(<<P("pages", s)>>)),
            P("rich_summary", e)>>) :
        i \in SourceImageOpts, v \in SourceVideoOpts, s \in SourceStoryOpts,
        e \in SourceExtraOpts }

InitConv ==
    /\ pc = "converting"
    /\ convPin \in PinInputs \cup VideoSourceInputs
    /\ reqUrl = JUndef
    /\ curUrl = <<>>
    /\ curPage = NoPage
    /\ cookieStr = <<>>
    /\ resolveErr = NoErr
    /\ apiResp = JUndef
    /\ apiErr = NoErr
    /\ invoked = <<>>
    /\ net = <<>>
    /\ inflight = 0
    /\ ret = JUndef
    /\ thrown = NoErr
    /\ sent = <<>>
    /\ BrowserIdle
    /\ LimiterIdle
    /\ SelectorIdle
    /\ GraphIdle

\* One call of pinObjectToMedia: it returns a value or throws a TypeError.
Convert ==
    /\ pc = "converting"
    /\ LET r == pinObjectToMedia(convPin) IN
        IF r.t = "throw"
        THEN thrown' = TypeErrorOf /\ UNCHANGED ret
        ELSE ret' = r /\ UNCHANGED thrown
    /\ pc' = "converted"
    /\ UNCHANGED <<reqUrl, curUrl, curPage, cookieStr, resolveErr, apiResp, apiErr,
                   invoked, net, inflight, sent, convPin>>
    /\ UNCHANGED <<bvars, lvars, svars, gvars>>

SpecConv == InitConv /\ [][Convert]_vars

\* A complete MediaResult.
IsMediaResult(r) ==
    /\ r.t = "obj"
    /\ Get(r, "type") \in {JStr(VIDEO), JStr(IMAGE), JStr(SubSeq(GIF, 2, 4))}
    /\ IsString(Get(r, "media_url")) /\ Get(r, "media_url").s # <<>>
    /\ IsString(Get(r, "title")) /\ Get(r, "title").s # <<>>
    /\ IsString(Get(r, "thumbnail")) \/ Get(r, "thumbnail") = JNull

\* C3: every value the converter returns is none or a complete MediaResult:
\* type video, image or gif, media_url and title non-empty strings, thumbnail
\* a string or null.
C3_CompleteResult ==
    pc = "converted" /\ thrown = NoErr => ret = JNull \/ IsMediaResult(ret)

\* ------------------------------------------------------------------------
\* The browser fallback: extractWithBrowser
\* ------------------------------------------------------------------------

PW_VIDEO_QUALITY_PREFERENCE ==
    <<"V_1080P", "V_720P", "V_480P", "V_360P", "V_240P", "V_EXP7", "V_EXP6", "V_EXP5">>

\* The browser module's own copy of pickBestVideo.
pwPickBestVideo(videoList) ==
    IF ~Truthy(videoList) \/ ~TypeofObject(videoList) THEN JNull
    ELSE
    LET pref == [i \in 1..Len(PW_VIDEO_QUALITY_PREFERENCE) |->
                    Get(videoList, PW_VIDEO_QUALITY_PREFERENCE[i])]
        i1 == FirstTrue([i \in 1..Len(pref) |-> VideoEntryCheck(pref[i]) # "skip"])
        vals == Values(videoList)
        i2 == FirstTrue([i \in 1..Len(vals) |-> VideoEntryCheck(vals[i]) # "skip"])
    IN  IF i1 # 0
        THEN IF VideoEntryCheck(pref[i1]) = "throw" THEN JThrow
             ELSE Lit(<<P("url", Get(pref[i1], "url")),
                        P("width", Get(pref[i1], "width")),
                        P("height", Get(pref[i1], "height"))>>)
        ELSE IF i2 # 0
        THEN IF VideoEntryCheck(vals[i2]) = "throw" THEN JThrow
             ELSE Lit(<<P("url", Get(vals[i2], "url"))>>)
        ELSE JNull

\* The browser module's own copy of deepFind: the same code.
pwDeepFind(obj, key) == deepFind(obj, key)

V_PINIMG_COM == <<"v", ".", "p", "i", "n", "i", "m", "g", ".", "c", "o", "m">>

RESOURCE_PATHS ==
    <<<<"/", "r", "e", "s", "o", "u", "r", "c", "e", "/", "P", "i", "n", "R", "e", "s", "o", "u", "r", "c", "e", "/">>,
      <<"/", "a", "p", "i", "/", "v", "3", "/", "p", "i", "n", "s", "/">>,
      <<"/", "v", "3", "/", "p", "i", "n", "s", "/">>>>

JSON_WORD == <<"j", "s", "o", "n">>

\* /v\.pinimg\.com/i.test(url) && /\.mp4/i.test(url)
IsCdnMp4(url) == Includes(ToLower(url), V_PINIMG_COM) /\ Includes(ToLower(url), MP4)

\* url.split('?')[0]
BeforeQuery(url) ==
    LET i == FirstTrue([j \in 1..Len(url) |-> url[j] = "?"])
    IN IF i = 0 THEN url ELSE SubSeq(url, 1, i - 1)

\* Set.prototype.add on the insertion-ordered set.
SetAdd(set, u) == IF u \in Range(set) THEN set ELSE Append(set, u)

RECURSIVE SetAddAll(_, _)
SetAddAll(set, us) ==
    IF Len(us) = 0 THEN set ELSE SetAddAll(SetAdd(set, Head(us)), Tail(us))

\* What the response observer takes from the JSON of an API response: the
\* URL of the first video list with a best entry, null when there is none or
\* when the search throws inside the observer's try block.
ObservedVideoUrl(json) ==
    LET videoLists == pwDeepFind(json, "video_list")
        bests == [i \in 1..Len(videoLists) |-> pwPickBestVideo(videoLists[i])]
        i == FirstTrue([j \in 1..Len(bests) |->
                 bests[j].t = "throw" \/ Truthy(OptGet(bests[j], "url"))])
    IN IF i = 0 \/ bests[i].t = "throw" THEN JNull ELSE Get(bests[i], "url")

RESOLUTIONS ==
    <<<<"1", "0", "8", "0">>, <<"7", "2", "0">>, <<"4", "8", "0">>, <<"3", "6", "0">>, <<"2", "4", "0">>>>

pickBestCapturedUrlFirst(urls) == urls[1]

\* The first URL naming the highest listed resolution, else the first of the
\* longest URLs (the sort is stable).
pickBestCapturedUrl(urls) ==
    IF \E i \in 1..Len(RESOLUTIONS) : \E j \in 1..Len(urls) :
           Includes(urls[j], RESOLUTIONS[i])
    THEN urls[CHOOSE j \in 1..Len(urls) :
                 \E i \in 1..Len(RESOLUTIONS) :
                     /\ Includes(urls[j], RESOLUTIONS[i])
                     /\ \A k \in 1..(j - 1) : ~Includes(urls[k], RESOLUTIONS[i])
                     /\ \A h \in 1..(i - 1) : \A k \in 1..Len(urls) :
                            ~Includes(urls[k], RESOLUTIONS[h])]
    ELSE urls[CHOOSE j \in 1..Len(urls) :
                 /\ \A k \in 1..Len(urls) : Len(urls[k]) <= Len(urls[j])
                 /\ \A k \in 1..(j - 1) : Len(urls[k]) < Len(urls[j])]

\* rawTitle.replace(/ \| Pinterest$/i, '').trim()
CleanTitle(rawTitle) ==
    Trim(IF EndsWith(ToLower(rawTitle), ToLower(PINTEREST_SUFFIX))
         THEN SubSeq(rawTitle, 1, Len(rawTitle) - Len(PINTEREST_SUFFIX))
         ELSE rawTitle)

PINTEREST_VIDEO_TITLE == <<"P", "i", "n", "t", "e", "r", "e", "s", "t", " ", "V", "i", "d", "e", "o">>

\* The end of the try block: the video URL if one was observed, else the
\* og:image as image or gif, else null.
ResolveMedia(captured, best, thumb, title) ==
    LET videoUrl == Or(best, IF Len(captured) > 0
                             THEN JStr(pickBestCapturedUrl(captured))
                             ELSE JNull)
    IN  IF Truthy(videoUrl) THEN MediaResult(VIDEO, videoUrl, thumb, JStr(title))
        ELSE IF Truthy(thumb)
        THEN MediaResult(GifOrImage(thumb), thumb, thumb, JStr(title))
        ELSE JNull

CDN_A == <<"h", ":", "/", "/", "v", ".", "p", "i", "n", "i", "m", "g", ".", "c", "o", "m", "/", "7", "2", "0", "p", "/", "a", ".", "m", "p", "4">>

CDN_B == <<"h", ":", "/", "/", "V", ".", "p", "i", "n", "i", "m", "g", ".", "c", "o", "m", "/", "b", ".", "M", "P", "4">>

CDN_C == <<"h", ":", "/", "/", "v", ".", "p", "i", "n", "i", "m", "g", ".", "c", "o", "m", "/", "1", "0", "8", "0", "/", "c", ".", "m", "p", "4">>

API_URL == <<"h", ":", "/", "/", "p", "/", "r", "e", "s", "o", "u", "r", "c", "e", "/", "P", "i", "n", "R", "e", "s", "o", "u", "r", "c", "e", "/", "g", "e", "t", "/">>

NetEvent(url, status, ct, json) == [url |-> url, status |-> status, ct |-> ct, json |-> json]

\* Responses the page can receive: a CDN video with a query string, API JSON
\* with a video list, a second one with another video, API JSON served as
\* HTML, an API 404.
ResponseEvents ==
    { NetEvent(CDN_A \o <<"?", "t">>, 200, <<>>, JNull),
      NetEvent(API_URL, 200, <<"a", "p", "p", "l", "i", "c", "a", "t", "i", "o", "n", "/", "j", "s", "o", "n">>, ApiBody(VideoPin(<<"w">>))),
      NetEvent(API_URL, 200, <<"a", "p", "p", "l", "i", "c", "a", "t", "i", "o", "n", "/", "j", "s", "o", "n">>, ApiBody(VideoPin(<<"x">>))),
      NetEvent(API_URL, 200, <<"t", "e", "x", "t", "/", "h", "t", "m", "l">>, ApiBody(VideoPin(<<"y">>))),
      NetEvent(API_URL, 404, <<"a", "p", "p", "l", "i", "c", "a", "t", "i", "o", "n", "/", "j", "s", "o", "n">>, ApiBody(VideoPin(<<"z">>))) }

\* URLs the page can request.
RequestUrls == {CDN_A \o <<"?", "t">>, CDN_B, API_URL}

RawTitles == {<<>>, <<"T">> \o PINTEREST_SUFFIX}

OgImages == {JNull, Url(<<"t">>, GIF), Url(<<"t">>, JPG)}

CDN_D == <<"h", ":", "/", "/", "v", ".", "p", "i", "n", "i", "m", "g", ".", "c", "o", "m", "/", "d", "d", "/", "d", ".", "m", "p", "4">>

\* What the scan of the page source finds.
ScanFinds == {<<>>, <<CDN_C>>, <<CDN_C, CDN_B>>, <<CDN_B, CDN_D>>}

PinUrls == {U_CANON, U_SHORT}

\* No request to POST /api/extract and no converter call is under way.
PipelineIdle ==
    /\ pc = "off"
    /\ reqUrl = JUndef
    /\ curUrl = <<>>
    /\ curPage = NoPage
    /\ cookieStr = <<>>
    /\ resolveErr = NoErr
    /\ apiResp = JUndef
    /\ apiErr = NoErr
    /\ invoked = <<>>
    /\ net = <<>>
    /\ inflight = 0
    /\ ret = JUndef
    /\ thrown = NoErr
    /\ sent = <<>>
    /\ convPin = JUndef

InitBrowser ==
    /\ PipelineIdle
    /\ LimiterIdle
    /\ SelectorIdle
    /\ GraphIdle
    /\ bpc = "idle"
    /\ pinUrl \in PinUrls
    /\ apiResult = JUndef
    /\ browser = "null"
    /\ calls = <<>>
    /\ capturedVideoUrls = <<>>
    /\ bestVideoFromApi = JNull
    /\ bThumbnail = JNull
    /\ bTitle = PINTEREST_VIDEO_TITLE
    /\ outcome = Completion("pending", JUndef, "")
    /\ peer = [captured |-> <<>>, best |-> JNull]

\* The call starts: with a pin identifier the internal API is asked first,
\* without one chromium.launch is called at once.
BrowserBegin ==
    /\ bpc = "idle"
    /\ IF Truthy(extractPinId(pinUrl))
       THEN bpc' = "fastapi" /\ calls' = Append(calls, "api")
       ELSE bpc' = "launch" /\ calls' = Append(calls, "launch")
    /\ UNCHANGED <<pinUrl, apiResult, browser, capturedVideoUrls, bestVideoFromApi,
                   bThumbnail, bTitle, outcome>>
    /\ UNCHANGED <<pvars, cvars, peer>>

\* What extractFromApi can settle with: its result for each response body, and
\* for a request that failed.
ApiOutcomes == {extractFromApi(resp) : resp \in ApiBodies \cup {JThrow}}

\* A fast path that returns whatever the API found, images included.
FastApiReturnsAny ==
    /\ bpc = "fastapi"
    /\ \E resp \in ApiBodies \cup {JThrow} :
        LET r == extractFromApi(resp) IN
        /\ apiResult' = r
        /\ IF r.t = "throw"
           THEN /\ outcome' = Completion("throw", JUndef, "fastapi")
                /\ bpc' = "done"
                /\ UNCHANGED calls
           ELSE IF Truthy(r)
           THEN /\ outcome' = Completion("return", r, "fastapi")
                /\ bpc' = "done"
                /\ UNCHANGED calls
           ELSE /\ bpc' = "launch"
                /\ calls' = Append(calls, "launch")
                /\ UNCHANGED outcome
    /\ UNCHANGED <<pinUrl, browser, capturedVideoUrls, bestVideoFromApi, bThumbnail,
                   bTitle>>
    /\ UNCHANGED <<pvars, cvars, peer>>

\* extractFromApi(pinId) settled: a video result is returned at once; an
\* exception of the converter leaves the call; anything else is dropped and
\* chromium.launch is called.
FastApi ==
    /\ bpc = "fastapi"
    /\ \E r \in ApiOutcomes :
        /\ apiResult' = r
        /\ IF r.t = "throw"
           THEN /\ outcome' = Completion("throw", JUndef, "fastapi")
                /\ bpc' = "done"
                /\ UNCHANGED calls
           ELSE IF OptGet(r, "type") = JStr(VIDEO)
           THEN /\ outcome' = Completion("return", r, "fastapi")
                /\ bpc' = "done"
                /\ UNCHANGED calls
           ELSE /\ bpc' = "launch"
                /\ calls' = Append(calls, "launch")
                /\ UNCHANGED outcome
    /\ UNCHANGED <<pinUrl, browser, capturedVideoUrls, bestVideoFromApi, bThumbnail,
                   bTitle>>
    /\ UNCHANGED <<pvars, cvars, peer>>

\* chromium.launch resolved: the session is open, newContext is called.
LaunchOk ==
    /\ bpc = "launch"
    /\ browser' = "open"
    /\ bpc' = "context"
    /\ UNCHANGED <<pinUrl, apiResult, calls, capturedVideoUrls, bestVideoFromApi,
                   bThumbnail, bTitle, outcome>>
    /\ UNCHANGED <<pvars, cvars, peer>>

\* chromium.launch rejected: browser is still null, finally closes nothing.
LaunchFail ==
    /\ bpc = "launch"
    /\ outcome' = Completion("throw", JUndef, "launch")
    /\ bpc' = "done"
    /\ UNCHANGED <<pinUrl, apiResult, browser, calls, capturedVideoUrls,
                   bestVideoFromApi, bThumbnail, bTitle>>
    /\ UNCHANGED <<pvars, cvars, peer>>

\* An awaited step resolved and the next one is called: newContext,
\* addInitScript, newPage (after which the observers are registered and
\* page.goto is called), goto.
StepOk(at, next, called) ==
    /\ bpc = at
    /\ bpc' = next
    /\ calls' = calls \o called
    /\ UNCHANGED <<pinUrl, apiResult, browser, capturedVideoUrls, bestVideoFromApi,
                   bThumbnail, bTitle, outcome>>
    /\ UNCHANGED <<pvars, cvars, peer>>

NewContextOk == StepOk("context", "initscript", <<>>)

AddInitScriptOk == StepOk("initscript", "newpage", <<>>)

NewPageOk == StepOk("newpage", "goto", <<"goto">>)

GotoOk == StepOk("goto", "title", <<>>)

\* The awaits of the try block that no inner try or catch guards.
UNGUARDED == {"context", "initscript", "newpage", "goto", "scrollwait"}

\* A failing step that ends the call without going through finally.
StepFailNoClose ==
    /\ bpc \in UNGUARDED
    /\ outcome' = Completion("throw", JUndef, bpc)
    /\ bpc' = "done"
    /\ UNCHANGED <<pinUrl, apiResult, browser, calls, capturedVideoUrls,
                   bestVideoFromApi, bThumbnail, bTitle>>
    /\ UNCHANGED <<pvars, cvars, peer>>

\* An unguarded step rejected: the exception leaves the try block and finally
\* calls browser.close.
StepFail ==
    /\ bpc \in UNGUARDED
    /\ outcome' = Completion("throw", JUndef, bpc)
    /\ bpc' = "closing"
    /\ calls' = Append(calls, "close")
    /\ UNCHANGED <<pinUrl, apiResult, browser, capturedVideoUrls, bestVideoFromApi,
                   bThumbnail, bTitle>>
    /\ UNCHANGED <<pvars, cvars, peer>>

\* The page exists, its observers are registered, and the call is waiting at
\* one of its awaits, that of browser.close included.
PageLive ==
    \/ bpc \in {"goto", "title", "thumb", "scroll", "scrollwait", "visible", "click",
                 "clickwait", "scan"}
    \/ bpc = "closing" /\ "goto" \in Range(calls)

\* The response observer's effect on the capture state it closes over: a CDN
\* MP4 is captured without its query string; API JSON answered with 200 gives
\* bestVideoFromApi unless it is already set.
ResponseObserver(cell, e) ==
    IF IsCdnMp4(e.url)
    THEN [cell EXCEPT !.captured = SetAdd(cell.captured, BeforeQuery(e.url))]
    ELSE IF /\ e.status = 200
            /\ \E i \in 1..Len(RESOURCE_PATHS) : Includes(e.url, RESOURCE_PATHS[i])
            /\ Includes(e.ct, JSON_WORD)
            /\ Truthy(e.json)
            /\ ~Truthy(cell.best)
            /\ Truthy(ObservedVideoUrl(e.json))
    THEN [cell EXCEPT !.best = ObservedVideoUrl(e.json)]
    ELSE cell

\* The request observer's effect: a CDN MP4 is captured without its query
\* string.
RequestObserver(cell, u) ==
    IF IsCdnMp4(u)
    THEN [cell EXCEPT !.captured = SetAdd(cell.captured, BeforeQuery(u))]
    ELSE cell

\* The capture state of this call, as the observers see it.
OwnCell == [captured |-> capturedVideoUrls, best |-> bestVideoFromApi]

\* page.on('response') of this call's page.
OnResponse ==
    /\ PageLive
    /\ \E e \in ResponseEvents :
        /\ capturedVideoUrls' = ResponseObserver(OwnCell, e).captured
        /\ bestVideoFromApi' = ResponseObserver(OwnCell, e).best
    /\ UNCHANGED <<bpc, pinUrl, apiResult, browser, calls, bThumbnail, bTitle, outcome>>
    /\ UNCHANGED <<pvars, cvars, peer>>

\* page.on('request') of this call's page.
OnRequest ==
    /\ PageLive
    /\ \E u \in RequestUrls :
        capturedVideoUrls' = RequestObserver(OwnCell, u).captured
    /\ UNCHANGED <<bpc, pinUrl, apiResult, browser, calls, bestVideoFromApi,
                   bThumbnail, bTitle, outcome>>
    /\ UNCHANGED <<pvars, cvars, peer>>

\* A CDN video and API JSON of the page another call has open.
CDN_P == <<"h", ":", "/", "/", "v", ".", "p", "i", "n", "i", "m", "g", ".", "c", "o", "m", "/", "p", ".", "m", "p", "4">>

PEER_VIDEO == Url(<<"q">>, MP4)

PeerResponseEvents ==
    { NetEvent(CDN_P, 200, <<>>, JNull),
      NetEvent(API_URL, 200, <<"a", "p", "p", "l", "i", "c", "a", "t", "i", "o", "n", "/", "j", "s", "o", "n">>, ApiBody(VideoPin(<<"q">>))) }

PeerRequestUrls == {CDN_P}

CaptureCellShared(call) == "own"

\* The capture state the observers of a call write to: capturedVideoUrls and
\* bestVideoFromApi are declared inside extractWithBrowser, one pair per call.
CaptureCell(call) == call

\* page.on('response') of the other call's page.
PeerOnResponse ==
    /\ \E e \in PeerResponseEvents :
        IF CaptureCell("peer") = "peer"
        THEN /\ peer' = ResponseObserver(peer, e)
             /\ peer' # peer
             /\ UNCHANGED <<capturedVideoUrls, bestVideoFromApi>>
        ELSE /\ capturedVideoUrls' = ResponseObserver(OwnCell, e).captured
             /\ bestVideoFromApi' = ResponseObserver(OwnCell, e).best
             /\ UNCHANGED peer
    /\ UNCHANGED <<bpc, pinUrl, apiResult, browser, calls, bThumbnail, bTitle, outcome>>
    /\ UNCHANGED <<pvars, cvars>>

\* page.on('request') of the other call's page.
PeerOnRequest ==
    /\ \E u \in PeerRequestUrls :
        IF CaptureCell("peer") = "peer"
        THEN /\ peer' = RequestObserver(peer, u)
             /\ peer' # peer
             /\ UNCHANGED capturedVideoUrls
        ELSE /\ capturedVideoUrls' = RequestObserver(OwnCell, u).captured
             /\ UNCHANGED peer
    /\ UNCHANGED <<bpc, pinUrl, apiResult, browser, calls, bestVideoFromApi,
                   bThumbnail, bTitle, outcome>>
    /\ UNCHANGED <<pvars, cvars>>

\* page.title() settled; a rejection is swallowed and the title kept.
PageTitle ==
    /\ bpc = "title"
    /\ \/ \E rawTitle \in RawTitles :
            bTitle' = IF Len(CleanTitle(rawTitle)) > 0 THEN CleanTitle(rawTitle)
                      ELSE bTitle
       \/ UNCHANGED bTitle
    /\ bpc' = "thumb"
    /\ UNCHANGED <<pinUrl, apiResult, browser, calls, capturedVideoUrls,
                   bestVideoFromApi, bThumbnail, outcome>>
    /\ UNCHANGED <<pvars, cvars, peer>>

NothingCaptured == Len(capturedVideoUrls) = 0 /\ ~Truthy(bestVideoFromApi)

\* The try block returns and finally calls browser.close.
Finish(captured, thumb) ==
    /\ \E c \in {captured} : \E t \in {thumb} :
          outcome' = Completion("return",
                         ResolveMedia(c, bestVideoFromApi, t, bTitle), "resolve")
    /\ bpc' = "closing"
    /\ calls' = Append(calls, "close")

\* The og:image lookup settled (a rejection gives null); with nothing
\* captured the page is scrolled, else the result is resolved.
OgImage ==
    /\ bpc = "thumb"
    /\ \E content \in OgImages :
        /\ bThumbnail' = content
        /\ IF NothingCaptured
           THEN bpc' = "scroll" /\ UNCHANGED <<outcome, calls>>
           ELSE Finish(capturedVideoUrls, content)
    /\ UNCHANGED <<pinUrl, apiResult, browser, capturedVideoUrls, bestVideoFromApi,
                   bTitle>>
    /\ UNCHANGED <<pvars, cvars, peer>>

\* The scroll settled (its rejection is swallowed); the 2 s wait starts.
ScrollSettle ==
    /\ bpc = "scroll"
    /\ bpc' = "scrollwait"
    /\ UNCHANGED <<pinUrl, apiResult, browser, calls, capturedVideoUrls,
                   bestVideoFromApi, bThumbnail, bTitle, outcome>>
    /\ UNCHANGED <<pvars, cvars, peer>>

\* The wait after the scroll is over; with nothing captured the play button
\* is looked for.
ScrollWaitOk ==
    /\ bpc = "scrollwait"
    /\ IF NothingCaptured
       THEN bpc' = "visible" /\ UNCHANGED <<outcome, calls>>
       ELSE Finish(capturedVideoUrls, bThumbnail)
    /\ UNCHANGED <<pinUrl, apiResult, browser, capturedVideoUrls, bestVideoFromApi,
                   bThumbnail, bTitle>>
    /\ UNCHANGED <<pvars, cvars, peer>>

\* After the play-button block: with nothing captured the page source is
\* scanned, else the result is resolved.
AfterPlay ==
    IF NothingCaptured
    THEN bpc' = "scan" /\ UNCHANGED <<outcome, calls>>
    ELSE Finish(capturedVideoUrls, bThumbnail)

\* isVisible settled; a rejection counts as not visible.
IsVisibleSettle ==
    /\ bpc = "visible"
    /\ \E visible \in BOOLEAN :
        IF visible
        THEN bpc' = "click" /\ UNCHANGED <<outcome, calls>>
        ELSE AfterPlay
    /\ UNCHANGED <<pinUrl, apiResult, browser, capturedVideoUrls, bestVideoFromApi,
                   bThumbnail, bTitle>>
    /\ UNCHANGED <<pvars, cvars, peer>>

\* The click resolved and the 3 s wait starts, or it rejected and the inner
\* catch swallows that.
ClickSettle ==
    /\ bpc = "click"
    /\ \/ bpc' = "clickwait" /\ UNCHANGED <<outcome, calls>>
       \/ AfterPlay
    /\ UNCHANGED <<pinUrl, apiResult, browser, capturedVideoUrls, bestVideoFromApi,
                   bThumbnail, bTitle>>
    /\ UNCHANGED <<pvars, cvars, peer>>

\* The wait after the click settled either way.
ClickWaitSettle ==
    /\ bpc = "clickwait"
    /\ AfterPlay
    /\ UNCHANGED <<pinUrl, apiResult, browser, capturedVideoUrls, bestVideoFromApi,
                   bThumbnail, bTitle>>
    /\ UNCHANGED <<pvars, cvars, peer>>

\* The scan of the page source settled: what it found is captured (a
\* rejection finds nothing) and the result is resolved.
ScanSettle ==
    /\ bpc = "scan"
    /\ \E found \in ScanFinds :
        \E captured \in {SetAddAll(capturedVideoUrls, found)} :
            /\ capturedVideoUrls' = captured
            /\ Finish(captured, bThumbnail)
    /\ UNCHANGED <<pinUrl, apiResult, browser, bestVideoFromApi, bThumbnail, bTitle>>
    /\ UNCHANGED <<pvars, cvars, peer>>

\* browser.close() settled; a rejection is swallowed.  The call then returns
\* or throws what the try block completed with.
CloseSettle ==
    /\ bpc = "closing"
    /\ browser' = "closed"
    /\ bpc' = "done"
    /\ UNCHANGED <<pinUrl, apiResult, calls, capturedVideoUrls, bestVideoFromApi,
                   bThumbnail, bTitle, outcome>>
    /\ UNCHANGED <<pvars, cvars, peer>>

NextBrowser ==
    \/ PeerOnResponse
    \/ PeerOnRequest
    \/ BrowserBegin
    \/ FastApi
    \/ LaunchOk
    \/ LaunchFail
    \/ NewContextOk
    \/ AddInitScriptOk
    \/ NewPageOk
    \/ GotoOk
    \/ StepFail
    \/ OnResponse
    \/ OnRequest
    \/ PageTitle
    \/ OgImage
    \/ ScrollSettle
    \/ ScrollWaitOk
    \/ IsVisibleSettle
    \/ ClickSettle
    \/ ClickWaitSettle
    \/ ScanSettle
    \/ CloseSettle

SpecBrowser == InitBrowser /\ [][NextBrowser]_vars

\* C7: when the call has ended no session is open, and a session that was
\* launched has been closed, browser.close being the last thing called,
\* whether the try block returned or threw.
C7_SessionClosed ==
    bpc = "done" =>
        /\ browser # "open"
        /\ outcome.kind \in {"return", "throw"}
        /\ "launch" \in Range(calls) /\ outcome.at # "launch" =>
              browser = "closed" /\ calls[Len(calls)] = "close"

\* The wait after the scroll rejected, and the session was closed before the
\* call threw.
C7_Witness ==
    /\ bpc = "done"
    /\ outcome.kind = "throw"
    /\ outcome.at = "scrollwait"
    /\ browser = "closed"

\* The fast path settled with a value that is no video result.
NoVideoFromApi ==
    /\ apiResult # JUndef
    /\ apiResult.t # "throw"
    /\ OptGet(apiResult, "type") # JStr(VIDEO)

\* What C8 says of the fast path's result: a video result ends the call with
\* nothing launched and nothing navigated; anything else is dropped,
\* chromium.launch is called next, and what the call returns comes from the
\* page alone: from what had been captured when the result was computed (the
\* observers may add to the set while the session closes).
FastPathRule ==
    /\ OptGet(apiResult, "type") = JStr(VIDEO) =>
        /\ bpc = "done"
        /\ outcome = Completion("return", apiResult, "fastapi")
        /\ calls = <<"api">>
        /\ browser = "null"
    /\ NoVideoFromApi =>
        /\ Len(calls) >= 2 /\ calls[2] = "launch"
        /\ outcome.at # "fastapi"
        /\ outcome.kind = "return" =>
              \E k \in 0..Len(capturedVideoUrls) :
                  \E slot \in {JNull, bestVideoFromApi} :
                      outcome.value = ResolveMedia(SubSeq(capturedVideoUrls, 1, k), slot,
                                                   bThumbnail, bTitle)

windowMs == 60 * 1000

max == 30

RATE_LIMIT_MSG == "Rate limit exceeded. You may make up to 30 requests per minute."

\* The callers, by req.ip.
IPs == {"10.0.0.1", "10.0.0.2"}

\* The clock advances in steps of TICK_MS up to MaxNow.  The first caller
\* stops sending once MaxOver of its requests were refused in a window; any
\* other caller sends at most MaxOther requests in a window.
TICK_MS == 30000

MaxNow == 60000

MaxOver == 1

MaxOther == 2

Quota(ip) == IF ip = "10.0.0.1" THEN max + MaxOver ELSE MaxOther

\* The mount points and request paths, by segment.
EXTRACT_PATH == <<"api", "extract">>

BROWSER_PATH == <<"api", "extract", "browser">>

API_KEY == <<"k", "1">>

\* process.env.API_KEY: not set, or a key.
ApiKeys == {JUndef, JStr(API_KEY)}

BEARER == <<"B", "e", "a", "r", "e", "r">>

\* req.headers['authorization']: absent, the key as bearer token, another
\* token, the key under another scheme, the key followed by more text.
AuthHeaders ==
    { JUndef,
      JStr(BEARER \o <<" ">> \o API_KEY),
      JStr(BEARER \o <<" ">> \o <<"k", "2">>),
      JStr(<<"B", "a", "s", "i", "c", " ">> \o API_KEY),
      JStr(BEARER \o <<" ">> \o API_KEY \o <<" ", "x">>) }

LimitedInput(path, u, authorization) ==
    [path |-> path, url |-> u, authorization |-> authorization]

\* The requests to the route: a valid and an invalid URL, with and without
\* the token the gate asks for.
LimitedInputs ==
    { LimitedInput(EXTRACT_PATH, JStr(U_CANON), JStr(BEARER \o <<" ">> \o API_KEY)),
      LimitedInput(EXTRACT_PATH, JStr(<<>>), JStr(BEARER \o <<" ">> \o API_KEY)),
      LimitedInput(EXTRACT_PATH, JStr(<<>>), JUndef) }

\* The requests of one caller to both routes: to the route with and without
\* the token, to the browser route under every header.
GatedInputs ==
    { LimitedInput(EXTRACT_PATH, JStr(U_CANON), JStr(BEARER \o <<" ">> \o API_KEY)),
      LimitedInput(EXTRACT_PATH, JStr(<<>>), JUndef) }
    \cup {LimitedInput(BROWSER_PATH, JStr(U_CANON), h) : h \in AuthHeaders}

Client(totalHits, resetTime) == [totalHits |-> totalHits, resetTime |-> resetTime]

\* The store's client for a key: a new or an expired one starts a window at t.
getClient(store, key, t) ==
    IF key \in DOMAIN store /\ store[key].resetTime > t
    THEN store[key]
    ELSE Client(0, t + windowMs)

\* MemoryStore.increment: one more hit in the key's window.
increment(store, key, t) ==
    LET client == getClient(store, key, t)
    IN  Client(client.totalHits + 1, client.resetTime)

CeilDiv(a, b) == IF a % b = 0 THEN a \div b ELSE (a \div b) + 1

\* What became of a request: its Authorization header, the response status
\* and body fields, and the last middleware it reached.  Status 0 is the
\* answer of the extraction, which the pipeline or the browser engine decides.
Outcome(ip, path, authorization, status, success, error, retryAfter, reached) ==
    [ip |-> ip, path |-> path, authorization |-> authorization, status |-> status,
     success |-> success, error |-> error, retryAfter |-> retryAfter,
     reached |-> reached]

\* The limiter refuses the hit that takes the total above max.
OverLimitLoose(totalHits) == totalHits > max + 1

OverLimit(totalHits) == totalHits > max

\* The handler of a refused request.
limitHandler(ip, in, client, t) ==
    Outcome(ip, in.path, in.authorization, 429, FALSE, RATE_LIMIT_MSG,
            CeilDiv(client.resetTime - t, 1000), "limiter")

browserMax == 5

BROWSER_LIMIT_MSG ==
    "Rate limit exceeded. Browser extraction allows up to 5 requests per minute."

OverBrowserLimit(totalHits) == totalHits > browserMax

\* The handler of browserLimiter.
browserLimitHandler(ip, in, client, t) ==
    Outcome(ip, in.path, in.authorization, 429, FALSE, BROWSER_LIMIT_MSG,
            CeilDiv(client.resetTime - t, 1000), "browserLimiter")

\* s.split(sep) for a separator of one character.
RECURSIVE SplitAt(_, _)
SplitAt(s, sep) ==
    LET i == FirstTrue([j \in 1..Len(s) |-> s[j] = sep])
    IN  IF i = 0 THEN <<s>>
        ELSE <<SubSeq(s, 1, i - 1)>> \o SplitAt(SubSeq(s, i + 1, Len(s)), sep)

UNAUTHORIZED_MSG ==
    "Unauthorized. Provide a valid API key via \"Authorization: Bearer <key>\"."

\* A gate that looks at the scheme only.
apiKeyAuthSchemeOnly(requiredKey, authorization) ==
    \/ ~Truthy(requiredKey)
    \/ SplitAt(Or(authorization, JStr(<<>>)).s, " ")[1] = BEARER

\* apiKeyAuth: whether next() is called; otherwise the 401 is sent.
apiKeyAuth(requiredKey, authorization) ==
    IF ~Truthy(requiredKey) THEN TRUE
    ELSE
    LET authHeader == Or(authorization, JStr(<<>>))
        parts == SplitAt(authHeader.s, " ")
        scheme == JStr(parts[1])
        token == IF Len(parts) >= 2 THEN JStr(parts[2]) ELSE JUndef
    IN  ~(scheme # JStr(BEARER) \/ token # requiredKey)

\* A mount point that takes the requests to its own path only.
MountedExact(mount, path) == path = mount

\* app.use(mount, ...): the middleware runs for the mount path and for every
\* path below it.
Mounted(mount, path) == IsPrefix(mount, path)

\* The way of one request through the middleware of the two mount points,
\* in the order of their registration: the limiter counts the hit, the gate
\* checks the header, the router answers POST / of its mount point and hands
\* any other path on.  Gives the two stores afterwards and what became of
\* the request.
Dispatch(hs, bs, key, ip, in, t) ==
    LET out(status, error, reached) ==
            Outcome(ip, in.path, in.authorization, status, FALSE, error, 0, reached)
        inExtract == Mounted(EXTRACT_PATH, in.path)
        e == increment(hs, ip, t)
        hs1 == IF inExtract THEN (ip :> e) @@ hs ELSE hs
        first == IF ~inExtract THEN "on"
                 ELSE IF OverLimit(e.totalHits) THEN "limited"
                 ELSE IF ~apiKeyAuth(key, in.authorization) THEN "unauthorized"
                 ELSE IF in.path = EXTRACT_PATH THEN "route"
                 ELSE "on"
        inBrowser == first = "on" /\ Mounted(BROWSER_PATH, in.path)
        b == increment(bs, ip, t)
        bs1 == IF inBrowser THEN (ip :> b) @@ bs ELSE bs
        valid == validatePinterestUrl(in.url).valid
        invalid(reached) == out(400, validatePinterestUrl(in.url).error, reached)
    IN  [hitStore |-> hs1, browserStore |-> bs1, counted |-> inExtract, hits |-> e,
         browserCounted |-> inBrowser, browserHits |-> b,
         outcome |->
            CASE first = "limited" -> limitHandler(ip, in, e, t)
              [] first = "unauthorized" -> out(401, UNAUTHORIZED_MSG, "auth")
              [] first = "route" /\ ~valid -> invalid("validation")
              [] first = "route" /\ valid -> out(0, "", "extraction")
              [] first = "on" /\ ~inBrowser -> out(404, "Endpoint not found.", "notFound")
              [] inBrowser /\ OverBrowserLimit(b.totalHits) -> browserLimitHandler(ip, in, b, t)
              [] inBrowser /\ ~OverBrowserLimit(b.totalHits)
                    /\ ~apiKeyAuth(key, in.authorization) ->
                        out(401, UNAUTHORIZED_MSG, "browserAuth")
              [] inBrowser /\ ~OverBrowserLimit(b.totalHits)
                    /\ apiKeyAuth(key, in.authorization) /\ in.path # BROWSER_PATH ->
                        out(404, "Endpoint not found.", "notFound")
              [] inBrowser /\ ~OverBrowserLimit(b.totalHits)
                    /\ apiKeyAuth(key, in.authorization) /\ in.path = BROWSER_PATH
                    /\ ~valid -> invalid("browserValidation")
              [] OTHER -> out(0, "", "browserExtraction")]

\* The window of a key as an observer counts it: the requests let through
\* since the window's first hit, the times of the first and the latest, the
\* requests refused in it, and whether any was refused in an earlier window.
Window(count, first, last, refused, earlier) ==
    [count |-> count, first |-> first, last |-> last, refused |-> refused,
     earlier |-> earlier]

Observe(log, key, fresh, pass, t) ==
    LET w == IF key \notin DOMAIN log THEN Window(0, t, t, 0, FALSE)
             ELSE IF fresh
             THEN Window(0, t, t, 0, log[key].earlier \/ log[key].refused > 0)
             ELSE log[key]
    IN  (key :> (IF pass
                 THEN Window(w.count + 1, w.first, t, w.refused, w.earlier)
                 ELSE Window(w.count, w.first, w.last, w.refused + 1, w.earlier)))
        @@ log

\* The server with an API key configured, before its first request.
InitLimiter ==
    /\ PipelineIdle
    /\ BrowserIdle
    /\ SelectorIdle
    /\ GraphIdle
    /\ now = 0
    /\ hitStore = <<>>
    /\ browserStore = <<>>
    /\ apiKeyEnv = JStr(API_KEY)
    /\ passed = <<>>
    /\ lastReq = <<>>

\* One request goes through the middleware chain of the server.  A caller
\* stops sending once its hits in a window reach quota, and its requests to
\* the browser route once MaxOver of them were refused by browserLimiter.
Request(ip, in, quota) ==
    \E d \in {Dispatch(hitStore, browserStore, apiKeyEnv, ip, in, now)} :
        /\ d.hits.totalHits <= quota
        /\ d.browserCounted => d.browserHits.totalHits <= browserMax + MaxOver
        /\ hitStore' = d.hitStore
        /\ browserStore' = d.browserStore
        /\ passed' = IF d.counted
                     THEN Observe(passed, ip, d.hits.totalHits = 1,
                                  ~OverLimit(d.hits.totalHits), now)
                     ELSE passed
        /\ lastReq' = d.outcome
        /\ UNCHANGED <<now, apiKeyEnv, pvars, convPin, bvars, svars, gvars>>

\* A request of any caller to /api/extract.
LimitedRequest == \E ip \in IPs : \E in \in LimitedInputs : Request(ip, in, Quota(ip))

\* Time passes.
Tick ==
    /\ now + TICK_MS <= MaxNow
    /\ now' = now + TICK_MS
    /\ UNCHANGED <<hitStore, browserStore, apiKeyEnv, passed, lastReq, pvars, convPin,
                   bvars, svars, gvars>>

NextLimiter == LimitedRequest \/ Tick

SpecLimiter == InitLimiter /\ [][NextLimiter]_vars

\* C11: in one window of the limiter at most max requests of a key are let
\* through, all within windowMs of the first, whatever their URL; a request
\* refused is answered 429 with success false and an error text and reaches
\* neither validation nor extraction; a request is refused only when the
\* key's window already holds max hits, so after the reset requests pass.
C11_RateLimit ==
    /\ \A ip \in DOMAIN passed :
          /\ passed[ip].count <= max
          /\ passed[ip].last - passed[ip].first < windowMs
    /\ lastReq # <<>> =>
          /\ lastReq.reached = "limiter" <=>
                hitStore[lastReq.ip].totalHits > max
          /\ lastReq.reached = "limiter" =>
                /\ lastReq.status = 429
                /\ ~lastReq.success
                /\ lastReq.error # ""
                /\ passed[lastReq.ip].count = max
          /\ (lastReq.status = 429 /\ lastReq.error = RATE_LIMIT_MSG)
                <=> lastReq.reached = "limiter"

\* A caller was refused in its first window and, the window over, was let
\* through again with a request whose URL is not valid.
C11_Witness ==
    /\ lastReq # <<>>
    /\ lastReq.reached = "validation"
    /\ passed[lastReq.ip].earlier
    /\ hitStore[lastReq.ip] = Client(1, now + windowMs)

\* ------------------------------------------------------------------------
\* The routes in front of extractPinterestMedia and extractWithBrowser
\* ------------------------------------------------------------------------

\* POST /api/extract/browser rejects a URL that fails validation.
BrowserRouteInvalid ==
    /\ bpc = "route"
    /\ ~validatePinterestUrl(reqUrl).valid
    /\ sent' = Append(sent, Response(400, FALSE, validatePinterestUrl(reqUrl).error, JUndef))
    /\ bpc' = "rejected"
    /\ UNCHANGED <<pc, reqUrl, curUrl, curPage, cookieStr, resolveErr, apiResp, apiErr,
                   invoked, net, inflight, ret, thrown>>
    /\ UNCHANGED <<pinUrl, apiResult, browser, calls, capturedVideoUrls,
                   bestVideoFromApi, bThumbnail, bTitle, outcome, peer>>
    /\ UNCHANGED cvars

\* It calls extractWithBrowser with the URL the validator returned.
BrowserRouteBegin ==
    /\ bpc = "route"
    /\ validatePinterestUrl(reqUrl).valid
    /\ pinUrl' = validatePinterestUrl(reqUrl).url
    /\ bTitle' = PINTEREST_VIDEO_TITLE
    /\ bpc' = "idle"
    /\ UNCHANGED <<apiResult, browser, calls, capturedVideoUrls, bestVideoFromApi,
                   bThumbnail, outcome>>
    /\ UNCHANGED <<pvars, cvars, peer>>

Repeat(c, n) == [i \in 1..n |-> c]

\* The URLs the validator's tests accept.
TestValidUrls ==
    { <<"h", "t", "t", "p", "s", ":", "/", "/", "w", "w", "w", ".", "p", "i", "n", "t", "e", "r", "e", "s", "t", ".", "c", "o", "m", "/", "p", "i", "n", "/", "1", "2", "3", "4", "5", "6", "7", "8", "9", "/">>,
      <<"h", "t", "t", "p", "s", ":", "/", "/", "p", "i", "n", "t", "e", "r", "e", "s", "t", ".", "c", "o", "m", "/", "p", "i", "n", "/", "1", "2", "3", "4", "5", "6", "7", "8", "9", "/">>,
      <<"h", "t", "t", "p", "s", ":", "/", "/", "p", "i", "n", "t", "e", "r", "e", "s", "t", ".", "c", "o", "m", "/", "p", "i", "n", "/", "1", "2", "3", "4", "5", "6", "7", "8", "9">>,
      <<"h", "t", "t", "p", "s", ":", "/", "/", "w", "w", "w", ".", "p", "i", "n", "t", "e", "r", "e", "s", "t", ".", "c", "o", ".", "u", "k", "/", "p", "i", "n", "/", "1", "2", "3", "4", "5", "6", "7", "8", "9", "/">>,
      <<"h", "t", "t", "p", "s", ":", "/", "/", "w", "w", "w", ".", "p", "i", "n", "t", "e", "r", "e", "s", "t", ".", "f", "r", "/", "p", "i", "n", "/", "a", "b", "c", "-", "d", "e", "f", "-", "g", "h", "i", "/">>,
      <<"h", "t", "t", "p", "s", ":", "/", "/", "p", "i", "n", ".", "i", "t", "/", "A", "b", "C", "d", "E", "f", "G">>,
      <<"h", "t", "t", "p", "s", ":", "/", "/", "p", "i", "n", ".", "i", "t", "/", "A", "b", "C", "d", "E", "f", "G", "/">>,
      <<"h", "t", "t", "p", "s", ":", "/", "/", "p", "i", "n", "t", "e", "r", "e", "s", "t", ".", "c", "o", "m", "/", "p", "i", "n", "/", "1", "2", "3", "4", "5", "6", "7", "8", "9", "/", "?", "u", "t", "m", "_", "s", "o", "u", "r", "c", "e", "=", "s", "h", "a", "r", "e">> }

PIN_PREFIX == <<"h", "t", "t", "p", "s", ":", "/", "/", "p", "i", "n", "t", "e", "r", "e", "s", "t", ".", "c", "o", "m", "/", "p", "i", "n", "/">>

\* The strings they reject.
TestInvalidStrings ==
    { <<>>,
      <<"n", "o", "t", "-", "a", "-", "u", "r", "l">>,
      <<"h", "t", "t", "p", "s", ":", "/", "/", "t", "w", "i", "t", "t", "e", "r", ".", "c", "o", "m", "/", "p", "i", "n", "/", "1", "2", "3", "4", "5", "6", "7", "8", "9", "/">>,
      <<"h", "t", "t", "p", "s", ":", "/", "/", "w", "w", "w", ".", "i", "n", "s", "t", "a", "g", "r", "a", "m", ".", "c", "o", "m", "/", "p", "/", "A", "B", "C", "1", "2", "3", "/">>,
      <<"h", "t", "t", "p", "s", ":", "/", "/", "w", "w", "w", ".", "p", "i", "n", "t", "e", "r", "e", "s", "t", ".", "c", "o", "m", "/", "u", "s", "e", "r", "n", "a", "m", "e", "/", "b", "o", "a", "r", "d", "-", "n", "a", "m", "e", "/">>,
      <<"b", "a", "d", "-", "u", "r", "l">>,
      <<"h", "t", "t", "p", "s", ":", "/", "/", "g", "o", "o", "g", "l", "e", ".", "c", "o", "m">> }

TestInvalidUrls ==
    {JStr(s) : s \in TestInvalidStrings \cup {PIN_PREFIX \o Repeat("a", 2050)}}
    \cup {JNull, JUndef, JNum(42)}

\* URLs put together from a scheme, a host and a rest.
Schemes ==
    { <<"h", "t", "t", "p", "s", ":", "/", "/">>,
      <<"h", "t", "t", "p", ":", "/", "/">>,
      <<"f", "t", "p", ":", "/", "/">>,
      <<"H", "T", "T", "P", "S", ":", "/", "/">> }

Hosts ==
    { <<"w", "w", "w", ".", "p", "i", "n", "t", "e", "r", "e", "s", "t", ".", "c", "o", "m">>,
      <<"p", "i", "n", "t", "e", "r", "e", "s", "t", ".", "c", "o", ".", "u", "k">>,
      <<"p", "i", "n", "t", "e", "r", "e", "s", "t", ".", "c">>,
      <<"p", "i", "n", "t", "e", "r", "e", "s", "t", ".", "i", "n", "f", "o">>,
      <<"p", "i", "n", ".", "i", "t">>,
      <<"w", "w", "w", ".", "p", "i", "n", ".", "i", "t">>,
      <<"t", "w", "i", "t", "t", "e", "r", ".", "c", "o", "m">>,
      <<"p", "i", "n", "t", "e", "r", "e", "s", "t", ".", "c", "o", "m", ".", "a", "u", ".", "n", "z">> }

Rests ==
    { <<"/", "p", "i", "n", "/", "1", "2">>,
      <<"/", "p", "i", "n", "/", "1", "2", "/">>,
      <<"/", "p", "i", "n", "/">>,
      <<"/", "p", "i", "n", "/", "a", "-", "b", "_", "C", "/", "?", "x", "=", "1">>,
      <<"/", "A", "b">>,
      <<"/", "u", "s", "e", "r", "/", "b", "o", "a", "r", "d", "/">>,
      <<"/", "p", "i", "n", "/", "1", "2", "/", "e", "x", "t", "r", "a">>,
      <<"/", "A", "b", "?", "a", "\n", "b">>,
      <<"/", "p", "i", "n", "/", "1", "2", "/", "/">> }

Pads == {<<>>, <<" ">>, <<"\n", "\t">>}

\* What req.body.url can hold: the tests' values, the assembled URLs with and
\* without white space around them, URLs at and above the length limit, and
\* values that are not strings.
ValidatorInputs ==
    {JStr(s) : s \in TestValidUrls}
    \cup TestInvalidUrls
    \cup {JStr(pad \o sc \o h \o r \o pad) :
            pad \in Pads, sc \in Schemes, h \in Hosts, r \in Rests}
    \cup {JStr(pad \o PIN_PREFIX \o Repeat("a", n - Len(PIN_PREFIX)) \o pad) :
            pad \in Pads, n \in {MAX_URL_LEN, MAX_URL_LEN + 1}}
    \cup {JStr(<<" ">>), JArr(<<P("0", JStr(U_CANON))>>), Lit(<<P("href", JStr(U_CANON))>>)}

\* A request with a body has reached one of the two routes.
InitValidate ==
    /\ reqUrl \in ValidatorInputs
    /\ \/ pc = "idle" /\ bpc = "off"
       \/ pc = "off" /\ bpc = "route"
    /\ curUrl = <<>>
    /\ curPage = NoPage
    /\ cookieStr = <<>>
    /\ resolveErr = NoErr
    /\ apiResp = JUndef
    /\ apiErr = NoErr
    /\ invoked = <<>>
    /\ net = <<>>
    /\ inflight = 0
    /\ ret = JUndef
    /\ thrown = NoErr
    /\ sent = <<>>
    /\ convPin = JUndef
    /\ pinUrl = <<>>
    /\ apiResult = JUndef
    /\ browser = "null"
    /\ calls = <<>>
    /\ capturedVideoUrls = <<>>
    /\ bestVideoFromApi = JNull
    /\ bThumbnail = JNull
    /\ bTitle = <<>>
    /\ outcome = Completion("pending", JUndef, "")
    /\ peer = [captured |-> <<>>, best |-> JNull]
    /\ LimiterIdle
    /\ SelectorIdle
    /\ GraphIdle

NextValidate ==
    \/ RouteInvalid
    \/ ExtractBegin
    \/ BrowserRouteInvalid
    \/ BrowserRouteBegin

SpecValidate == InitValidate /\ [][NextValidate]_vars

\* The inputs the claim calls valid: a non-empty string whose trimmed form
\* is at most 2048 characters long and matches one of the two patterns.
Acceptable(u) ==
    /\ IsString(u)
    /\ u.s # <<>>
    /\ Len(Trim(u.s)) <= 2048
    /\ MatchesPinPattern(Trim(u.s)) \/ MatchesShortPattern(Trim(u.s))

Handled == pc \notin {"idle", "off"} \/ bpc \notin {"route", "off"}

MP4_A == <<"a", ".", "m", "p", "4">>

MP4_B == <<"b", ".", "m", "p", "4">>

HLS_A == <<"a", ".", "m", "3", "u", "8">>

JPG_A == <<"a", ".", "j", "p", "g">>

GIF_B == <<"b", ".", "G", "I", "F">>

\* Entries as the data model has them: an object whose url, if it has one,
\* is a string.
VideoEntries ==
    { Lit(<<P("url", JStr(MP4_A)), P("width", JNum(720)), P("height", JNum(1280))>>),
      Entry(JStr(MP4_B)), Entry(JStr(HLS_A)), Entry(JStr(<<>>)),
      Lit(<<P("width", JNum(720))>>) }

ImageEntries ==
    { Entry(JStr(JPG_A)), Entry(JStr(GIF_B)), Entry(JStr(<<>>)),
      Lit(<<P("width", JNum(236))>>) }

\* Entries that are null or no objects, or whose url is no string.
OddEntries ==
    { JNull, JStr(MP4_A), Entry(JNum(5)), Entry(JArr(<<P("0", JStr(M3U8))>>)) }

VideoLabels == {"V_1080P", "V_720P", "V_HLSV4", "V_X"}

ImageLabels == {"orig", "736x", "1200x", "custom"}

\* The objects with at most MaxEntries properties, in every order, under
\* distinct labels.
MaxEntries == 2

RECURSIVE Mappings(_, _, _)
Mappings(labels, entries, n) ==
    IF n = 0 THEN {<<>>}
    ELSE LET shorter == Mappings(labels, entries, n - 1)
         IN  shorter \cup
             { Append(m, P(l, e)) :
                 m \in {x \in shorter : Len(x) = n - 1}, l \in labels, e \in entries }

DistinctLabels(m) == \A i, j \in 1..Len(m) : m[i].k = m[j].k => i = j

MappingInputs(labels, entries) ==
    { JObj(m) : m \in {x \in Mappings(labels, entries, MaxEntries) : DistinctLabels(x)} }

\* Arguments that are no mapping at all.
OddInputs ==
    { JUndef, JNull, JStr(MP4_A), JNum(0), JNum(3),
      JArr(<<P("0", Entry(JStr(HLS_A))), P("1", Entry(JStr(MP4_B)))>>),
      JArr(<<P("0", Entry(JNum(5)))>>) }

VideoInputs == MappingInputs(VideoLabels, VideoEntries \cup OddEntries) \cup OddInputs

ImageInputs == MappingInputs(ImageLabels, ImageEntries \cup OddEntries) \cup OddInputs

InitSelect ==
    /\ PipelineIdle
    /\ BrowserIdle
    /\ LimiterIdle
    /\ GraphIdle
    /\ spc = "call"
    /\ \/ selFn = "video" /\ selArg \in VideoInputs
       \/ selFn = "image" /\ selArg \in ImageInputs
    /\ selRet = JUndef

\* One call of pickBestVideo.
CallPickBestVideo ==
    /\ spc = "call"
    /\ selFn = "video"
    /\ selRet' = pickBestVideo(selArg)
    /\ spc' = "done"
    /\ UNCHANGED <<selFn, selArg, pvars, convPin, lvars, bvars, gvars>>

\* One call of pickBestImage.
CallPickBestImage ==
    /\ spc = "call"
    /\ selFn = "image"
    /\ selRet' = pickBestImage(selArg)
    /\ spc' = "done"
    /\ UNCHANGED <<selFn, selArg, pvars, convPin, lvars, bvars, gvars>>

NextSelect == CallPickBestVideo \/ CallPickBestImage

SpecSelect == InitSelect /\ [][NextSelect]_vars

\* The mappings of the data model: an object whose entries hold a string
\* under url or nothing.
UrlOf(entry) == Get(entry, "url")

StringUrls(v) ==
    /\ v.t = "obj"
    /\ \A i \in 1..Len(v.p) : UrlOf(v.p[i].v).t \in {"undef", "str"}

\* An entry with a URL, and one whose URL is no streaming manifest.
HasUrl(entry) == UrlOf(entry).t = "str" /\ UrlOf(entry).s # <<>>

Progressive(entry) == HasUrl(entry) /\ ~Includes(UrlOf(entry).s, M3U8)

Least(S) == CHOOSE x \in S : \A y \in S : x <= y

\* The labels by resolution, highest first.
QUALITY_LABELS == <<"V_1080P", "V_720P", "V_480P", "V_240P", "V_EXP7", "V_EXP6", "V_EXP5">>

SIZE_LABELS == <<"orig", "736x", "600x315", "474x", "236x", "170x">>

\* C13: pickBestVideo never returns a URL that holds ".m3u8", and for a
\* mapping with at least one progressive candidate it returns a variant,
\* whose URL is progressive.
C13_NoManifest ==
    spc = "done" /\ selFn = "video" =>
        /\ selRet.t = "obj" /\ IsString(UrlOf(selRet)) =>
              ~Includes(UrlOf(selRet).s, M3U8)
        /\ StringUrls(selArg) /\ (\E i \in 1..Len(selArg.p) : Progressive(selArg.p[i].v))
              => selRet.t = "obj" /\ Progressive(selRet)

\* The only progressive candidate stands after a manifest that has a
\* prioritized label, and is returned.
C13_Witness ==
    /\ spc = "done" /\ selFn = "video"
    /\ selArg = JObj(<<P("V_1080P", Entry(JStr(HLS_A))), P("V_X", Entry(JStr(MP4_B)))>>)
    /\ selRet = Entry(JStr(MP4_B))

\* C14: pickBestVideo returns the variant under the first label, highest
\* resolution first, whose URL is progressive; when no prioritized label
\* has one, the first variant in mapping order whose URL is progressive;
\* none when there is no progressive URL at all.
C14_Priority ==
    spc = "done" /\ selFn = "video" /\ StringUrls(selArg) =>
        LET prio == {i \in 1..Len(QUALITY_LABELS) :
                        Progressive(Get(selArg, QUALITY_LABELS[i]))}
            vals == {i \in 1..Len(selArg.p) : Progressive(selArg.p[i].v)}
        IN  IF prio # {}
            THEN LET e == Get(selArg, QUALITY_LABELS[Least(prio)])
                 IN  /\ UrlOf(selRet) = UrlOf(e)
                     /\ Get(selRet, "width") = Get(e, "width")
                     /\ Get(selRet, "height") = Get(e, "height")
            ELSE IF vals # {}
            THEN selRet = Entry(UrlOf(selArg.p[Least(vals)].v))
            ELSE selRet = JNull

\* The 720p variant stands first in the mapping, and the 1080p variant is
\* returned.
C14_Witness ==
    /\ spc = "done" /\ selFn = "video"
    /\ Len(selArg.p) = 2
    /\ selArg.p[1].k = "V_720P" /\ Progressive(selArg.p[1].v)
    /\ selArg.p[2] = P("V_1080P", Entry(JStr(MP4_B)))
    /\ selRet = Entry(JStr(MP4_B))

\* What C15 says of a result but for the case of none.
BestImageRule ==
    LET pref == {i \in 1..Len(SIZE_LABELS) : HasUrl(Get(selArg, SIZE_LABELS[i]))}
        vals == {i \in 1..Len(selArg.p) : HasUrl(selArg.p[i].v)}
    IN  /\ pref # {} => selRet = UrlOf(Get(selArg, SIZE_LABELS[Least(pref)]))
        /\ pref = {} /\ vals # {} => selRet = UrlOf(selArg.p[Least(vals)].v)
        /\ Cardinality(vals) = 1 => selRet = UrlOf(selArg.p[Least(vals)].v)

\* C15 as stated: the URL under the first size label present, else the
\* first URL in mapping order, the only URL when there is one, and none on
\* an empty mapping only.
C15_NoneOnlyWhenEmpty ==
    spc = "done" /\ selFn = "image" /\ StringUrls(selArg) =>
        /\ BestImageRule
        /\ selRet = JNull => Len(selArg.p) = 0

\* C15: the URL under the first size label present, else the first URL in
\* mapping order, the only URL when there is one; none exactly when no
\* variant of the mapping holds a non-empty URL.
C15_BestImage ==
    spc = "done" /\ selFn = "image" /\ StringUrls(selArg) =>
        /\ BestImageRule
        /\ selRet = JNull <=> \A i \in 1..Len(selArg.p) : ~HasUrl(selArg.p[i].v)

\* The one variant with a URL has a label of no priority and stands after an
\* empty variant labelled orig.
C15_Witness ==
    /\ spc = "done" /\ selFn = "image"
    /\ selArg = JObj(<<P("orig", Entry(JStr(<<>>))), P("custom", Entry(JStr(GIF_B)))>>)
    /\ selRet = JStr(GIF_B)

\* C16: the selectors never raise: pickBestVideo returns none or a variant
\* with a URL, pickBestImage none or a URL.
C16_Total ==
    spc = "done" =>
        /\ selRet.t # "throw"
        /\ selFn = "video" => selRet = JNull \/ (selRet.t = "obj" /\ IsString(UrlOf(selRet)))
        /\ selFn = "image" => selRet = JNull \/ IsString(selRet)

\* ------------------------------------------------------------------------
\* deepFind on object graphs, cycles included
\* ------------------------------------------------------------------------

\* A property value that is an object or an array is a reference to a node
\* of the heap; the node holds the own properties in the order Object.values
\* lists them.
Ref(id) == JV("ref", <<>>, id, <<>>)

IsRef(v) == v.t = "ref"

SEARCH_KEY == "k"

Nodes == {1, 2, 3}

\* An array has at most MaxElems elements; the call stack holds at most
\* MaxDepth activations of deepFind.
MaxElems == 2

MaxDepth == 4

\* What a property of node n can hold: a number or any node.
NodeValues(n) == {JNum(n)} \cup {Ref(m) : m \in Nodes}

ObjectShapes(n) ==
    {JObj(<<>>)}
    \cup {JObj(<<P(k, v)>>) : k \in {"k", "a"}, v \in NodeValues(n)}
    \cup {JObj(<<P(ks[1], v1), P(ks[2], v2)>>) :
            ks \in {<<"k", "a">>, <<"a", "k">>},
            v1 \in NodeValues(n), v2 \in NodeValues(n)}

ArrayShapes(n) ==
    UNION { {JArr([i \in 1..len |-> P(INDEX[i], vs[i])]) :
                vs \in [1..len -> NodeValues(n)]} : len \in 0..MaxElems }

LeafShapes == {JObj(<<P("k", JNum(3))>>), JObj(<<P("a", Ref(1))>>), JArr(<<>>)}

Children(h, n) ==
    SelectSeq([i \in 1..Len(h[n].p) |-> h[n].p[i].v], IsRef)

\* The nodes reachable from the nodes of S.
RECURSIVE Reach(_, _)
Reach(h, S) ==
    LET T == S \cup UNION {{c.n : c \in Range(Children(h, n))} : n \in S}
    IN  IF T = S THEN S ELSE Reach(h, T)

\* The graphs: two nodes of any shape and a third of a few; a node out of
\* reach of node 1 is left empty.
Graphs ==
    { h \in { [n \in Nodes |-> IF n = 1 THEN a ELSE IF n = 2 THEN b ELSE c] :
                a \in ObjectShapes(1) \cup ArrayShapes(1),
                b \in ObjectShapes(2) \cup ArrayShapes(2),
                c \in LeafShapes } :
        \A n \in Nodes \ Reach(h, {1}) : h[n] = IF n = 3 THEN JArr(<<>>) ELSE JObj(<<>>) }

EmptyGraph == [n \in Nodes |-> IF n = 3 THEN JArr(<<>>) ELSE JObj(<<>>)]

InitGraph ==
    /\ PipelineIdle
    /\ BrowserIdle
    /\ LimiterIdle
    /\ SelectorIdle
    /\ \/ heap \in Graphs /\ dfRoot = Ref(1)
       \/ heap = EmptyGraph /\ dfRoot \in {JUndef, JNull, JNum(0), JStr(MP4_A)}
    /\ dfpc = "call"
    /\ dfStack = <<>>
    /\ dfSeen = {}
    /\ dfOut = <<>>
    /\ dfExpanded = [n \in Nodes |-> 0]
    /\ dfSteps = 0

Frame(node, i) == [node |-> node, i |-> i]

\* results.push(obj[key]) for a node that has the key as an own property.
Collect(out, node) ==
    IF HasOwn(node, SEARCH_KEY) THEN Append(out, Get(node, SEARCH_KEY)) ELSE out

\* typeof val === 'object' && val !== null
DescendsIntoObjectsOnly(h, val) == IsRef(val) /\ h[val.n].t = "obj"

DescendsInto(h, val) == IsRef(val)

\* _seen.has(obj)
NeverSeen(seen, id) == FALSE

Seen(seen, id) == id \in seen

\* The call deepFind(root, key): a primitive gives the empty array at once,
\* a node is marked, asked for the key and walked.
DeepFindCall ==
    /\ dfpc = "call"
    /\ IF ~IsRef(dfRoot)
       THEN /\ dfpc' = "done"
            /\ UNCHANGED <<dfStack, dfSeen, dfOut, dfExpanded>>
       ELSE /\ dfpc' = "run"
            /\ dfStack' = <<Frame(dfRoot.n, 1)>>
            /\ dfSeen' = {dfRoot.n}
            /\ dfOut' = Collect(dfOut, heap[dfRoot.n])
            /\ dfExpanded' = [dfExpanded EXCEPT ![dfRoot.n] = @ + 1]
    /\ dfSteps' = dfSteps + 1
    /\ UNCHANGED <<heap, dfRoot, pvars, convPin, lvars, svars, bvars>>

\* The loop of the innermost activation takes its next value: a primitive
\* is passed over; for a node deepFind is called, which returns at once if
\* the node is in _seen and else marks it, asks it for the key and walks it.
DeepFindVisit ==
    /\ dfpc = "run"
    /\ LET top == dfStack[Len(dfStack)]
           props == heap[top.node].p
       IN  /\ top.i <= Len(props)
           /\ LET val == props[top.i].v
                  advanced == [dfStack EXCEPT ![Len(dfStack)].i = top.i + 1]
              IN  IF ~DescendsInto(heap, val) \/ Seen(dfSeen, val.n)
                  THEN /\ dfStack' = advanced
                       /\ UNCHANGED <<dfpc, dfSeen, dfOut, dfExpanded>>
                  ELSE IF Len(dfStack) >= MaxDepth
                  THEN /\ dfpc' = "overflow"
                       /\ UNCHANGED <<dfStack, dfSeen, dfOut, dfExpanded>>
                  ELSE /\ dfStack' = Append(advanced, Frame(val.n, 1))
                       /\ dfSeen' = dfSeen \cup {val.n}
                       /\ dfOut' = Collect(dfOut, heap[val.n])
                       /\ dfExpanded' = [dfExpanded EXCEPT ![val.n] = @ + 1]
                       /\ UNCHANGED dfpc
    /\ dfSteps' = dfSteps + 1
    /\ UNCHANGED <<heap, dfRoot, pvars, convPin, lvars, svars, bvars>>

\* The loop of the innermost activation is over: it returns its results.
DeepFindReturn ==
    /\ dfpc = "run"
    /\ LET top == dfStack[Len(dfStack)]
       IN  top.i > Len(heap[top.node].p)
    /\ dfStack' = SubSeq(dfStack, 1, Len(dfStack) - 1)
    /\ dfpc' = IF Len(dfStack) = 1 THEN "done" ELSE "run"
    /\ dfSteps' = dfSteps + 1
    /\ UNCHANGED <<heap, dfRoot, dfSeen, dfOut, dfExpanded, pvars, convPin, lvars,
                   svars, bvars>>

NextGraph == DeepFindCall \/ DeepFindVisit \/ DeepFindReturn

SpecGraph == InitGraph /\ [][NextGraph]_vars

\* The work a graph allows: per node one walk over its properties and one
\* return.
RECURSIVE Work(_, _)
Work(h, S) ==
    IF S = {} THEN 0
    ELSE LET n == CHOOSE x \in S : TRUE
         IN  Len(h[n].p) + 1 + Work(h, S \ {n})

\* C17: a call of deepFind ends: it walks the properties of each node at
\* most once, so the stack never holds more activations than there are
\* nodes and never overflows, the steps taken are bounded by the size of
\* the graph, a step is possible until the call has returned, and the
\* result has at most one entry per node.
C17_Terminates ==
    dfpc # "off" =>
        /\ dfpc # "overflow"
        /\ \A n \in Nodes : dfExpanded[n] <= 1
        /\ Len(dfStack) <= Cardinality(Nodes)
        /\ dfSteps <= 1 + Work(heap, Nodes)
        /\ Len(dfOut) <= Cardinality(Nodes)
        /\ dfpc # "done" => ENABLED NextGraph

\* The root holds itself and a second node, which holds the root and
\* itself; the call has returned.
C17_Witness ==
    /\ dfpc = "done"
    /\ heap[1] = JObj(<<P("k", Ref(1)), P("a", Ref(2))>>)
    /\ heap[2] = JArr(<<P("0", Ref(1)), P("1", Ref(2))>>)
    /\ dfOut = <<Ref(1)>>
    /\ dfExpanded[1] = 1 /\ dfExpanded[2] = 1

\* The nodes in depth-first pre-order from the nodes of todo, each once.
RECURSIVE Walk(_, _, _)
Walk(h, todo, visited) ==
    IF todo = <<>> THEN <<>>
    ELSE LET n == Head(todo).n
         IN  IF n \in visited THEN Walk(h, Tail(todo), visited)
             ELSE <<n>> \o Walk(h, Children(h, n) \o Tail(todo), visited \cup {n})

TypedUrls(pin) == \A u \in Range(deepFind(pin, "url")) : IsString(u)

Converted == pc = "converted" /\ thrown = NoErr

\* C19: for a pin with an images field that holds a URL and with no video
\* list anywhere, the result has that URL, the one pickBestImage chooses, as
\* media_url and as thumbnail, and its type is gif if the URL ends in .gif
\* in any case of letters, and image otherwise.
C19_ImageOnly ==
    /\ pc = "converted"
    /\ TypedUrls(convPin)
    /\ HasOwn(convPin, "images")
    /\ IsString(pickBestImage(Get(convPin, "images")))
    /\ ~HasOwn(convPin, "videos")
    /\ deepFind(convPin, "video_list") = <<>>
    => LET chosen == pickBestImage(Get(convPin, "images"))
       IN  /\ thrown = NoErr
           /\ ret.t = "obj"
           /\ Get(ret, "media_url") = chosen
           /\ Get(ret, "thumbnail") = chosen
           /\ Get(ret, "type") = IF EndsWith(ToLower(chosen.s), <<".", "g", "i", "f">>)
                                 THEN JStr(<<"g", "i", "f">>)
                                 ELSE JStr(<<"i", "m", "a", "g", "e">>)

\* An image pin whose URL ends in .GIF came out as a gif.
C19_Witness ==
    /\ Converted
    /\ convPin = Lit(<<P("images", ImagesOf(Url(<<"i">>, <<".", "G", "I", "F">>)))>>)
    /\ Get(ret, "type") = JStr(<<"g", "i", "f">>)
    /\ Get(ret, "media_url") = Url(<<"i">>, <<".", "G", "I", "F">>)

\* A video source: a video list and the thumbnail that goes with it.
Source(videoList, thumb) == [videoList |-> videoList, thumb |-> thumb]

Usable(videoList) == pickBestVideo(videoList).t = "obj"

\* The video list a block carries, directly or one level deeper.
BlockVideoList(block) ==
    LET direct == Get(Get(block, "video"), "video_list")
    IN  IF direct.t \notin {"undef", "null"} THEN direct
        ELSE Get(Get(Get(block, "block"), "video"), "video_list")

PinThumbnail(pin) == Or(pickBestImage(Get(pin, "images")), JNull)

\* The sources of the blocks of a page, with the page's cover if it has one
\* and else the pin's thumbnail.
PageSources(pin, page) ==
    LET blocks == Get(page, "blocks")
        thumb == Or(pickBestImage(Get(page, "image")), PinThumbnail(pin))
    IN  IF blocks.t # "arr" THEN <<>>
        ELSE [i \in 1..Len(blocks.p) |-> Source(BlockVideoList(blocks.p[i].v), thumb)]

\* All sources in the order C20 gives: the direct video list, the story
\* pages and their blocks in list order, whatever deepFind finds.
Sources(pin) ==
    LET pages == Get(Get(pin, "story_pin_data"), "pages")
        found == deepFind(pin, "video_list")
    IN  <<Source(Get(Get(pin, "videos"), "video_list"), PinThumbnail(pin))>>
        \o (IF pages.t # "arr" THEN <<>>
            ELSE Flatten([i \in 1..Len(pages.p) |-> PageSources(pin, pages.p[i].v)]))
        \o [i \in 1..Len(found) |-> Source(found[i], PinThumbnail(pin))]

\* C20: the first source with a usable video, in the order direct video
\* list, story blocks, deepFind, gives a video result with that source's
\* thumbnail; an image or gif result is returned only when no video list
\* anywhere in the pin is usable, and none only when there is no thumbnail
\* either.
C20_SourceOrder ==
    Converted /\ TypedUrls(convPin) /\ convPin.t = "obj" =>
        LET srcs == Sources(convPin)
            first == FirstTrue([i \in 1..Len(srcs) |-> Usable(srcs[i].videoList)])
            anywhere == \E vl \in Range(deepFind(convPin, "video_list")) : Usable(vl)
        IN  /\ first # 0 =>
                /\ Get(ret, "type") = JStr(VIDEO)
                /\ Get(ret, "media_url") = Get(pickBestVideo(srcs[first].videoList), "url")
                /\ Get(ret, "thumbnail") = srcs[first].thumb
            /\ first # 0 <=> anywhere
            /\ ret.t = "obj" /\ Get(ret, "type") # JStr(VIDEO) =>
                /\ ~anywhere
                /\ Get(ret, "media_url") = PinThumbnail(convPin)
            /\ ret = JNull <=> ~anywhere /\ PinThumbnail(convPin) = JNull

\* The first page has a manifest only; the video nested in the block of the
\* second page is returned with that page's cover, not the pin's thumbnail.
C20_Witness ==
    /\ Converted
    /\ HasOwn(convPin, "images")
    /\ ~HasOwn(convPin, "videos")
    /\ Get(ret, "media_url") = Url(<<"n">>, MP4)
    /\ Get(ret, "thumbnail") = Url(<<"c", "2">>, JPG)

\* ------------------------------------------------------------------------
\* Fail-soft interpretation of pages and payloads
\* ------------------------------------------------------------------------

\* The errors the pipeline is meant to raise: the resolution error, a
\* transport error of the page fetch, the unresolved-media error.
ContractErrors ==
    {ResolutionError(c) : c \in AxiosFailures} \cup AxiosFailures \cup {UnresolvedMediaError}

\* C21: no interpretation step raises: on the page and the API answer of
\* every state each strategy gives a result or none, and an error that leaves
\* extractPinterestMedia is the resolution error, a transport error of the
\* page fetch or the unresolved-media error.
C21_FailSoft ==
    /\ \A i \in 1..Len(PRIORITY) : OutcomeOf(PRIORITY[i]).t # "throw"
    /\ thrown # NoErr => thrown \in ContractErrors

\* ------------------------------------------------------------------------
\* The page parsers called on their own: meta tags and relay scripts
\* ------------------------------------------------------------------------

SUNSET == <<"S", "u", "n", "s", "e", "t">>

EXAMPLE_IMAGE == <<"h", "t", "t", "p", "s", ":", "/", "/", "c", "d", "n", ".", "e", "x", "a", "m", "p", "l", "e", "/", "4", "7", "4", "x", "/", "a", "b", "c", ".", "j", "p", "g">>

EXAMPLE_ORIGINAL == <<"h", "t", "t", "p", "s", ":", "/", "/", "c", "d", "n", ".", "e", "x", "a", "m", "p", "l", "e", "/", "o", "r", "i", "g", "i", "n", "a", "l", "s", "/", "a", "b", "c", ".", "j", "p", "g">>

SIZED_GIF == <<"h", "t", "t", "p", "s", ":", "/", "/", "i", ".", "p", "i", "n", "i", "m", "g", ".", "c", "o", "m", "/", "2", "3", "6", "x", "/", "a", ".", "G", "I", "F">>

PLAIN_IMAGE == <<"h", "t", "t", "p", "s", ":", "/", "/", "i", ".", "p", "i", "n", "i", "m", "g", ".", "c", "o", "m", "/", "a", "/", "b", ".", "j", "p", "g">>

VIDEO_SELECTORS ==
    <<"og:video:secure_url", "og:video:url", "og:video", "twitter:player:stream">>

IMAGE_SELECTORS == <<"og:image", "twitter:image:src", "twitter:image">>

TITLE_SELECTORS == <<"og:title", "twitter:title">>

\* Video meta tags of a page: none, one, one whose content is empty before
\* one that has content, one without the attribute.
VideoMetaOpts ==
    { <<>>,
      <<Meta("og:video", Url(<<"m">>, MP4))>>,
      <<Meta("twitter:player:stream", Url(<<"s">>, M3U8)),
        Meta("og:video:url", Url(<<"u">>, MP4))>>,
      <<Meta("og:video", JStr(<<>>)), Meta("twitter:player:stream", Url(<<"s">>, MP4))>>,
      <<Meta("og:video", JUndef)>> }

ImageMetaOpts ==
    { <<>>,
      <<Meta("og:image", JStr(SIZED_URL))>>,
      <<Meta("og:image", JStr(EXAMPLE_IMAGE))>>,
      <<Meta("twitter:image", JStr(SIZED_GIF)), Meta("og:image", JStr(<<>>))>>,
      <<Meta("twitter:image:src", JStr(PLAIN_IMAGE))>> }

TitleMetaOpts ==
    { <<>>,
      <<Meta("og:title", JStr(SUNSET))>>,
      <<Meta("twitter:title", JStr(<<"T">>)), Meta("og:title", JStr(<<>>))>> }

DocTitles == {<<>>, <<"D">> \o PINTEREST_SUFFIX, PINTEREST_SUFFIX \o <<" ">>}

RawHtmls == {<<>>, <<"<">> \o ORIG_URL \o <<"\"">>}

MetaPages ==
    { [scripts |-> <<>>, meta |-> t \o v \o i, title |-> d, html |-> h] :
        v \in VideoMetaOpts, i \in ImageMetaOpts, t \in TitleMetaOpts,
        d \in DocTitles, h \in RawHtmls }

VideoListOf(key, label, url) == Lit(<<P(key, Lit(<<P(label, Entry(url))>>))>>)

\* Relay scripts: progressive lists under one or two quality keys (the lower
\* quality first in the document), a manifest under a streaming key, a mixed
\* list with and without a progressive entry, a response without video, and a
\* second argument that is no JSON.
RelayScriptOpts ==
    { RelayScript(VideoListOf("videoList720P", "v720P", Url(<<"l", "7">>, MP4)), TRUE),
      RelayScript(Lit(<<P("a", VideoListOf("videoList240P", "v240P", Url(<<"l", "2">>, MP4))),
                        P("videoList1080P", Lit(<<P("v1080P", Entry(Url(<<"l", "1">>, MP4)))>>))>>),
                  TRUE),
      RelayScript(VideoListOf("v_hlsv4_video_list", "vHLSV4", Url(<<"h">>, M3U8)), TRUE),
      RelayScript(Lit(<<P("videoList", Lit(<<P("vHLSV4", Entry(Url(<<"x">>, M3U8))),
                                             P("v720P", Entry(Url(<<"x">>, MP4)))>>))>>), TRUE),
      RelayScript(VideoListOf("videoList", "vHLSV4", Url(<<"y">>, M3U8)), TRUE),
      RelayScript(Lit(<<P("data", JNull), P("pinTitle", JStr(<<"T">>))>>), TRUE),
      RelayScript(JUndef, FALSE) }

RelayPages ==
    { [scripts |-> s, meta |-> <<>>, title |-> <<>>, html |-> <<>>] :
        s \in {<<>>} \cup {<<a>> : a \in RelayScriptOpts}
              \cup {<<a, b>> : a \in RelayScriptOpts, b \in RelayScriptOpts} }

InitParse ==
    /\ PipelineIdle
    /\ BrowserIdle
    /\ LimiterIdle
    /\ GraphIdle
    /\ spc = "call"
    /\ \/ selFn = "meta" /\ selArg \in MetaPages
       \/ selFn = "relay" /\ selArg \in RelayPages
    /\ selRet = JUndef

\* One call of extractFromMetaTags on a loaded page.
CallExtractFromMetaTags ==
    /\ spc = "call"
    /\ selFn = "meta"
    /\ selRet' = extractFromMetaTags(selArg)
    /\ spc' = "done"
    /\ UNCHANGED <<selFn, selArg, pvars, convPin, lvars, bvars, gvars>>

\* One call of extractFromRelayScripts on a loaded page.
CallExtractFromRelayScripts ==
    /\ spc = "call"
    /\ selFn = "relay"
    /\ selRet' = extractFromRelayScripts(selArg)
    /\ spc' = "done"
    /\ UNCHANGED <<selFn, selArg, pvars, convPin, lvars, bvars, gvars>>

NextParse == CallExtractFromMetaTags \/ CallExtractFromRelayScripts

SpecParse == InitParse /\ [][NextParse]_vars

\* The positions of the selectors for which the page has a meta tag with a
\* non-empty content.
Present(page, selectors) ==
    {i \in 1..Len(selectors) : Truthy(MetaContent(page, selectors[i]))}

\* The content of the first selector present.
ContentOf(page, selectors) == MetaContent(page, selectors[Least(Present(page, selectors))])

\* m is u with its first sized path segment (/<digits>x/) replaced by the
\* originals segment, or u itself when it has none.
Substituted(u, m) ==
    LET sized == {<<i, k>> \in (1..Len(u)) \X (1..Len(u)) : SizedAt(u, i, k)}
    IN  IF sized = {} THEN m = u
        ELSE \E ik \in sized :
               /\ \A jl \in sized : ik[1] <= jl[1]
               /\ m = SubSeq(u, 1, ik[1] - 1) \o ORIGINALS_SEG
                        \o SubSeq(u, ik[1] + ik[2] + 3, Len(u))

\* C22: the meta-tag strategy gives a video result when a video meta tag is
\* present, else an image or gif result when an image meta tag is present,
\* else none; an image result has the meta-tag URL unchanged as thumbnail and
\* as media_url the originals URL found in the raw HTML, else the meta-tag URL
\* with its sized segment replaced by the originals segment; the title is the
\* og/twitter title, else the document title without the site suffix, else
\* the placeholder.
C22_MetaTags ==
    (spc = "done" /\ selFn = "meta") =>
        LET page == selArg
            hasVideo == Present(page, VIDEO_SELECTORS) # {}
            hasImage == Present(page, IMAGE_SELECTORS) # {}
            hasTitle == Present(page, TITLE_SELECTORS) # {}
            image == ContentOf(page, IMAGE_SELECTORS)
            found == findOriginalImageInHtml(page.html, image)
            docTitle == Trim(ReplaceFirst(page.title, PINTEREST_SUFFIX, <<>>))
            title == IF hasTitle THEN ContentOf(page, TITLE_SELECTORS)
                     ELSE IF docTitle # <<>> THEN JStr(docTitle)
                     ELSE JStr(PINTEREST)
            media == Get(selRet, "media_url")
        IN  IF hasVideo
            THEN selRet = MediaResult(VIDEO, ContentOf(page, VIDEO_SELECTORS),
                                      IF hasImage THEN image ELSE JNull, title)
            ELSE IF hasImage
            THEN /\ Get(selRet, "type") \in {JStr(IMAGE), JStr(SubSeq(GIF, 2, 4))}
                 /\ Get(selRet, "type") = JStr(SubSeq(GIF, 2, 4))
                        <=> EndsWith(ToLower(media.s), GIF)
                 /\ Get(selRet, "thumbnail") = image
                 /\ Get(selRet, "title") = title
                 /\ IsString(media)
                 /\ IF Truthy(found)
                    THEN /\ media = found
                         /\ Includes(page.html, media.s)
                         /\ IsPrefix(ORIGINALS_PREFIX, media.s)
                    ELSE Substituted(image.s, media.s)
            ELSE selRet = JNull

\* A page with only og:title=Sunset and og:image=https://cdn.example/474x/abc.jpg.
C22_Witness ==
    /\ spc = "done"
    /\ selFn = "meta"
    /\ selArg.meta = <<Meta("og:title", JStr(SUNSET)), Meta("og:image", JStr(EXAMPLE_IMAGE))>>
    /\ selArg.title = <<>>
    /\ selArg.html = <<>>
    /\ selRet = MediaResult(IMAGE, JStr(EXAMPLE_ORIGINAL), JStr(EXAMPLE_IMAGE), JStr(SUNSET))

\* The relay scripts of a page whose second argument parses.
ParsedRelayScripts(page) ==
    SelectSeq(InlineScripts(page), LAMBDA sc : RELAY_MARK \in sc.marks /\ sc.ok)

\* The progressive entries a relay response holds under the quality keys, in
\* the priority order of the keys.
ProgressiveEntries(json) ==
    SelectSeq(RelayEntries(json, MP4_QUALITY_KEYS), Progressive)

\* C27: the relay strategy returns a progressive URL, the one under the first
\* quality key in priority order, whenever a relay response script of the page
\* holds one; it returns a manifest only if none of them does; a script
\* whose second argument is no JSON contributes nothing and raises nothing.
C27_ProgressiveFirst ==
    (spc = "done" /\ selFn = "relay") =>
        LET scs == ParsedRelayScripts(selArg)
            withMp4 == {i \in 1..Len(scs) : ProgressiveEntries(scs[i].json) # <<>>}
        IN  /\ selRet.t # "throw"
            /\ selRet = extractFromRelayScripts([selArg EXCEPT !.scripts = scs])
            /\ withMp4 # {} =>
                 /\ Truthy(selRet)
                 /\ ~IncludesM3U8(Get(selRet, "media_url"))
                 /\ \E i \in withMp4 :
                      Get(selRet, "media_url") = UrlOf(ProgressiveEntries(scs[i].json)[1])
            /\ (Truthy(selRet) /\ IncludesM3U8(Get(selRet, "media_url"))) => withMp4 = {}

\* ------------------------------------------------------------------------
\* The bearer-token gate and the two limiters in front of the browser route
\* ------------------------------------------------------------------------

\* The server with or without an API key, before its first request.
InitGate ==
    /\ PipelineIdle
    /\ BrowserIdle
    /\ SelectorIdle
    /\ GraphIdle
    /\ now = 0
    /\ hitStore = <<>>
    /\ browserStore = <<>>
    /\ apiKeyEnv \in ApiKeys
    /\ passed = <<>>
    /\ lastReq = <<>>

\* A request of the first caller to /api/extract or /api/extract/browser.
GatedRequest == \E in \in GatedInputs : Request("10.0.0.1", in, max + MaxOver)

NextGate == GatedRequest \/ Tick

SpecGate == InitGate /\ [][NextGate]_vars

\* The handlers behind the gate: validation and extraction of either route.
BEHIND_GATE == {"validation", "extraction", "browserValidation", "browserExtraction"}

\* The header 'Bearer <API_KEY>'.
ExactBearer == JStr(BEARER \o <<" ">> \o API_KEY)

\* C23 as stated: with API_KEY set, a request that the limiters let through
\* gets to validation and extraction only if its Authorization header is
\* exactly 'Bearer <API_KEY>', and is answered 401 with success false
\* otherwise; with API_KEY not set the gate lets every request through.
C23_ExactHeader ==
    lastReq # <<>> /\ lastReq.status # 429 =>
        IF Truthy(apiKeyEnv)
        THEN IF lastReq.authorization = ExactBearer
             THEN lastReq.reached \in BEHIND_GATE
             ELSE /\ lastReq.reached = "auth"
                  /\ lastReq.status = 401
                  /\ ~lastReq.success
        ELSE lastReq.reached \in BEHIND_GATE

\* The headers whose first two parts, split at single spaces, are Bearer and
\* the key.
BearerWithKey(h) ==
    /\ IsString(h)
    /\ \/ h = ExactBearer
       \/ IsPrefix(ExactBearer.s \o <<" ">>, h.s)

\* C23, amended: with API_KEY set, a request that the limiters let through
\* gets to validation and extraction exactly if its Authorization header is
\* 'Bearer <API_KEY>', alone or followed by a space and more text, and is
\* answered 401 with success false otherwise; with API_KEY not set the gate
\* lets every request through.
C23_BearerGate ==
    lastReq # <<>> /\ lastReq.status # 429 =>
        IF Truthy(apiKeyEnv) /\ ~BearerWithKey(lastReq.authorization)
        THEN /\ lastReq.reached = "auth"
             /\ lastReq.status = 401
             /\ ~lastReq.success
             /\ lastReq.error # ""
        ELSE lastReq.reached \in BEHIND_GATE

\* With the key set, a header that carries more text after the key got a
\* request to the browser extraction.
C23_Witness ==
    /\ Truthy(apiKeyEnv)
    /\ lastReq # <<>>
    /\ lastReq.authorization = JStr(ExactBearer.s \o <<" ", "x">>)
    /\ lastReq.reached = "browserExtraction"

\* C29: a request to /api/extract/browser is counted by the extract limiter
\* and checked by the gate of the /api/extract mount before the browser
\* limiter counts it for the same key; it is answered 429 by the extract
\* limiter above 30 hits in its window and by the browser limiter above 5.
C29_BothWindows ==
    [][(<<hitStore, browserStore, lastReq>>' # <<hitStore, browserStore, lastReq>>
          /\ lastReq'.path = BROWSER_PATH) =>
        LET r == lastReq'
            ip == r.ip
        IN  /\ ip \in DOMAIN hitStore'
            /\ hitStore'[ip] = increment(hitStore, ip, now)
            /\ r.reached = "limiter" <=> hitStore'[ip].totalHits > max
            /\ r.reached = "auth" =>
                  Truthy(apiKeyEnv) /\ ~BearerWithKey(r.authorization)
            /\ r.reached \in {"limiter", "auth"} => browserStore' = browserStore
            /\ r.reached \notin {"limiter", "auth"} =>
                  /\ browserStore' = (ip :> increment(browserStore, ip, now)) @@ browserStore
                  /\ r.reached = "browserLimiter" <=> browserStore'[ip].totalHits > browserMax
                  /\ r.reached # "browserLimiter" =>
                        r.reached \in {"browserValidation", "browserExtraction"}
            /\ r.status = 429 <=> r.reached \in {"limiter", "browserLimiter"}]_vars

\* A caller whose window began with a request to the browser route and who
\* sent six of them is refused by the extract limiter on a further one: of
\* the 30 requests let through at most 24 went to the route.
C29_Witness ==
    /\ lastReq # <<>>
    /\ lastReq.path = BROWSER_PATH
    /\ lastReq.reached = "limiter"
    /\ lastReq.ip \in DOMAIN browserStore
    /\ browserStore[lastReq.ip].totalHits = browserMax + 1
    /\ browserStore[lastReq.ip].resetTime = hitStore[lastReq.ip].resetTime
    /\ passed[lastReq.ip].count = max

\* ------------------------------------------------------------------------
\* Short-link resolution
\* ------------------------------------------------------------------------

\* C28: extractPinterestMedia resolves the URL first exactly when it is a
\* short link: every URL the validator accepts by its short-link pattern is
\* resolved before the page is fetched, and no URL it accepts by the pin
\* pattern, whatever its query string, is sent through the resolution.
C28_ResolveIffShort ==
    (pc # "idle" /\ validatePinterestUrl(reqUrl).valid) =>
        LET u == validatePinterestUrl(reqUrl).url
        IN  /\ MatchesShortPattern(u) => Ops[1] = "resolve"
            /\ MatchesPinPattern(u) => "resolve" \notin Range(Ops)

\* ---------------------------------------------------------------------------
\* The observers of the browser engine
\* ---------------------------------------------------------------------------

\* C24: the observers exist from the moment page.goto is called and nothing
\* is captured before it; the captured set only grows and keeps its order; the
\* API slot, once set, is never written again; what an observer does after the
\* result was computed leaves the result as it is; and the capture state of
\* one call is never written by the observers of another.
C24_Observers ==
    [][ /\ (capturedVideoUrls' # capturedVideoUrls \/ bestVideoFromApi' # bestVideoFromApi) =>
              "goto" \in Range(calls)
        /\ bpc = "goto" => ENABLED OnRequest
        /\ IsPrefix(capturedVideoUrls, capturedVideoUrls')
        /\ Truthy(bestVideoFromApi) => bestVideoFromApi' = bestVideoFromApi
        /\ outcome.kind # "pending" => outcome' = outcome
        /\ peer' # peer =>
              /\ capturedVideoUrls' = capturedVideoUrls
              /\ bestVideoFromApi' = bestVideoFromApi
        /\ CDN_P \notin Range(capturedVideoUrls')
        /\ bestVideoFromApi' # PEER_VIDEO
        /\ Range(peer'.captured) \subseteq {CDN_P}
        /\ peer'.best \in {JNull, PEER_VIDEO}
      ]_vars

\* The call returned no media, an observer of its page captured a URL while
\* the session was closing, and the observers of the other call have filled
\* that call's set and slot.
C24_Witness ==
    /\ bpc = "done"
    /\ outcome = Completion("return", JNull, "resolve")
    /\ capturedVideoUrls # <<>>
    /\ ~Truthy(bestVideoFromApi)
    /\ peer.captured = <<CDN_P>>
    /\ peer.best = PEER_VIDEO

\* ---------------------------------------------------------------------------
\* The recovery actions of the browser engine
\* ---------------------------------------------------------------------------

\* Where the call stands inside a recovery action.
RECOVERY == {"scroll", "scrollwait", "visible", "click", "clickwait", "scan"}

\* The order and the guards of the recovery actions: each is entered from the
\* one before it and only while nothing has been captured, and the click
\* follows a play button found visible.
RecoveryOrder ==
    [][ /\ (bpc' = "scroll" /\ bpc # "scroll") => (bpc = "thumb" /\ NothingCaptured)
        /\ (bpc' = "visible" /\ bpc # "visible") => (bpc = "scrollwait" /\ NothingCaptured)
        /\ (bpc' = "click" /\ bpc # "click") => bpc = "visible"
        /\ (bpc' = "scan" /\ bpc # "scan") =>
              (bpc \in {"visible", "click", "clickwait"} /\ NothingCaptured)
      ]_vars

\* C25: after the navigation the recovery actions run only while nothing has
\* been captured, in the order scroll, click of a visible play button, scan
\* of the markup, and no failure inside one of them aborts the call.
C25_Recovery ==
    /\ RecoveryOrder
    /\ [][(bpc \in RECOVERY) => (outcome'.kind # "throw")]_vars

\* ---------------------------------------------------------------------------
\* What the browser engine returns
\* ---------------------------------------------------------------------------

\* The place of the first resolution label a URL carries, one past the last
\* place when it carries none.
LabelRank(u) ==
    IF \E i \in 1..Len(RESOLUTIONS) : Includes(u, RESOLUTIONS[i])
    THEN CHOOSE i \in 1..Len(RESOLUTIONS) :
             /\ Includes(u, RESOLUTIONS[i])
             /\ \A j \in 1..(i - 1) : ~Includes(u, RESOLUTIONS[j])
    ELSE Len(RESOLUTIONS) + 1

\* The rule of the result for a set, a slot, a thumbnail and a title.
ResultRule(v, S, slot, thumb, title) ==
    /\ OptGet(v, "type") = JStr(VIDEO) <=> (Truthy(slot) \/ S # {})
    /\ Truthy(slot) => Get(v, "media_url") = slot
    /\ (~Truthy(slot) /\ S # {}) =>
          \E u \in S :
              /\ Get(v, "media_url") = JStr(u)
              /\ \A w \in S : LabelRank(u) <= LabelRank(w)
              /\ LabelRank(u) > Len(RESOLUTIONS) => \A w \in S : Len(w) <= Len(u)
    /\ (~Truthy(slot) /\ S = {}) =>
          IF Truthy(thumb)
          THEN /\ Get(v, "type") =
                      JStr(IF EndsWith(ToLower(thumb.s), GIF) THEN <<"g", "i", "f">> ELSE IMAGE)
               /\ Get(v, "media_url") = thumb
          ELSE v = JNull
    /\ v # JNull => (Get(v, "thumbnail") = thumb /\ Get(v, "title") = JStr(title))

\* C26: on the full browser path the result computed at the end of the try
\* block is a video exactly when the slot is set or the set is non-empty, with
\* the slot's URL, else the captured URL with the highest resolution label,
\* else the longest one; without a video it is the og:image as image or gif,
\* else null; thumbnail and title are those read from the page.
C26_Result ==
    [][ (outcome' # outcome /\ outcome'.at = "resolve") =>
            /\ outcome'.kind = "return"
            /\ {"goto"} \subseteq Range(calls)
            /\ ResultRule(outcome'.value, Range(capturedVideoUrls'), bestVideoFromApi',
                          bThumbnail', bTitle')
      ]_vars

\* The scan found two URLs without a resolution label after nothing else had
\* been captured, and the call returned the longer, second one as a video.
C26_Witness ==
    /\ bpc = "done"
    /\ capturedVideoUrls = <<CDN_B, CDN_D>>
    /\ ~Truthy(bestVideoFromApi)
    /\ outcome.kind = "return"
    /\ Get(outcome.value, "media_url") = JStr(CDN_D)

\* ---------------------------------------------------------------------------
\* Termination of extract and of extractWithBrowser
\* ---------------------------------------------------------------------------

\* The main flow of extractWithBrowser: the steps that settle one of its
\* awaits.
BrowserMainFlow ==
    \/ BrowserBegin
    \/ FastApi
    \/ LaunchOk
    \/ LaunchFail
    \/ NewContextOk
    \/ AddInitScriptOk
    \/ NewPageOk
    \/ GotoOk
    \/ StepFail
    \/ PageTitle
    \/ OgImage
    \/ ScrollSettle
    \/ ScrollWaitOk
    \/ IsVisibleSettle
    \/ ClickSettle
    \/ ClickWaitSettle
    \/ ScanSettle
    \/ CloseSettle

\* The steps of a request to POST /api/extract: the route, the settling of
\* each request extractPinterestMedia awaits, and its synchronous strategies.
PipelineFlow ==
    \/ ResolveFail
    \/ ResolveOk
    \/ FetchFail
    \/ FetchOk
    \/ ApiFail
    \/ ApiOk
    \/ RouteSuccess
    \/ RouteError
    \/ RouteInvalid
    \/ ExtractBegin
    \/ Redux
    \/ Pws
    \/ Relay
    \/ MetaTags

\* One call: a request to POST /api/extract, or a call of extractWithBrowser.
InitEnds == Init \/ InitBrowser

NextEnds == PipelineFlow \/ BrowserMainFlow \/ OnResponse \/ OnRequest

\* Every awaited call settles (it completes or its timeout fires), and
\* synchronous code runs on; the observers fire when the page makes them.
SpecEnds ==
    InitEnds /\ [][NextEnds]_vars /\ WF_vars(PipelineFlow) /\ WF_vars(BrowserMainFlow)

\* An axios request that ran into its timeout.
IsTimeout(e) == e.code \in {"ECONNABORTED", "ETIMEDOUT"}

\* C30: every request to the extract route is answered and every call of
\* extractWithBrowser ends; a short-link resolution or a page fetch that times
\* out throws out of extractPinterestMedia and no result is returned, and the
\* request is answered with an error; a navigation that does not complete
\* throws out of the try block, and the call ends with that exception.
C30_Ends ==
    /\ (pc = "idle") ~> (pc = "responded")
    /\ (bpc = "idle") ~> (bpc = "done" /\ outcome.kind \in {"return", "throw"})
    /\ [][ /\ (pc = "resolving" /\ IsTimeout(resolveErr')) =>
                (pc' = "thrown" /\ thrown' = ResolutionError(resolveErr') /\ ret' = JUndef)
           /\ (pc = "fetching" /\ IsTimeout(thrown')) =>
                (pc' = "thrown" /\ ret' = JUndef)
           /\ (bpc = "goto" /\ bpc' \notin {"goto", "title"}) =>
                (outcome'.kind = "throw" /\ outcome'.at = "goto")
         ]_vars
    /\ (pc = "thrown") ~> (pc = "responded" /\ ~sent[Len(sent)].success /\ ret = JUndef)
    /\ (outcome.kind = "throw") ~> (bpc = "done" /\ outcome.kind = "throw")

\* The request for a short link was answered with an error after the
\* resolution had run into its timeout.
C30_Witness ==
    /\ pc = "responded"
    /\ resolveErr = AxiosNetError("ECONNABORTED")
    /\ net = <<Req("resolve", U_SHORT)>>
    /\ ret = JUndef
    /\ Len(sent) = 1
    /\ ~sent[1].success
====
